---- MODULE Spec2Model ----
(***************************************************************************)
(* A model of the seval-ui language core: the S-expression evaluator       *)
(* (packages/sexp/src/evaluator.ts), the surface-language parser, the two  *)
(* execution backends of the surface language, and the calculator program  *)
(* used by the end-to-end tests.                                           *)
(*                                                                         *)
(* Runtime values are tagged records [t |-> tag, v |-> payload]; string    *)
(* values carry their characters as a sequence of one-character strings,   *)
(* so that conversions between numbers and strings are computed.           *)
(***************************************************************************)
EXTENDS Integers, Sequences, FiniteSets, TLC

VARIABLES
    frames,          \* evaluator: every environment frame created so far
    stack,           \* evaluator: frames of the evalExpr calls in progress
    lastDef,         \* evaluator: history of the last (define name v) evaluated
    evRun,           \* evaluator: the evaluate() call last made and its result
    path,            \* compiled program: how it was compiled and is invoked
    cenv,            \* compiled program: the environment compileSeval returned
    objHist,         \* compiled program: history of the executeSeval calls made
    opRun,           \* both backends: the entry point last invoked and its results
    parseRun,        \* parser: the token sequence last parsed and the outcome
    calc,            \* calculator: the state object the actions work on
    calcTrace,       \* calculator: the actions dispatched so far
    loopRun,         \* for-loop program: its results under both backends
    rt,              \* runtime bridge: the runtime object and its last call
    tokRun           \* tokenizer: the source last tokenized and the outcome

vars == <<frames, stack, lastDef, evRun, path, cenv, objHist, opRun, parseRun, calc,
          calcTrace, loopRun, rt, tokRun>>

\* the variables of the specifications other than the one an action belongs to
evalVars == <<frames, stack, lastDef, evRun>>

objVars == <<path, cenv, objHist>>

calcVars == <<calc, calcTrace>>

bridgeVars == <<loopRun, rt, tokRun>>

(***************************************************************************)
(* Values                                                                  *)
(***************************************************************************)
Num(n)  == [t |-> "num", v |-> n]
Str(s)  == [t |-> "str", v |-> s]
Bool(b) == [t |-> "bool", v |-> b]
Null    == [t |-> "null", v |-> 0]
Undef   == [t |-> "undef", v |-> 0]
NaN     == [t |-> "nan", v |-> 0]
Sym(n)  == [t |-> "sym", v |-> n]
List(s) == [t |-> "list", v |-> s]

Digits == <<"0", "1", "2", "3", "4", "5", "6", "7", "8", "9">>

IsDigit(c) == \E i \in 1..10 : Digits[i] = c

DigitVal(c) == (CHOOSE i \in 1..10 : Digits[i] = c) - 1

RECURSIVE NatToChars(_)
NatToChars(n) ==
    IF n < 10 THEN <<Digits[n + 1]>>
    ELSE NatToChars(n \div 10) \o <<Digits[(n % 10) + 1]>>

\* JavaScript String(x) / ToString on a primitive value
ToStr(x) ==
    CASE x.t = "str"   -> x.v
      [] x.t = "num"   -> IF x.v < 0 THEN <<"-">> \o NatToChars(-x.v) ELSE NatToChars(x.v)
      [] x.t = "nan"   -> <<"N", "a", "N">>
      [] x.t = "bool"  -> IF x.v THEN <<"t", "r", "u", "e">> ELSE <<"f", "a", "l", "s", "e">>
      [] x.t = "null"  -> <<"n", "u", "l", "l">>
      [] x.t = "undef" -> <<"u", "n", "d", "e", "f", "i", "n", "e", "d">>
      [] OTHER         -> <<"[", "o", "b", "j", "]">>

\* the longest prefix of s made of digits
RECURSIVE DigitPrefix(_)
DigitPrefix(s) ==
    IF s = <<>> \/ ~IsDigit(Head(s)) THEN <<>>
    ELSE <<Head(s)>> \o DigitPrefix(Tail(s))

RECURSIVE CharsToNat(_, _)
CharsToNat(s, acc) ==
    IF s = <<>> THEN acc ELSE CharsToNat(Tail(s), acc * 10 + DigitVal(Head(s)))

\* JavaScript Number.parseFloat on a character sequence (integers only):
\* an optional sign, then the longest run of digits; NaN when there is none.
ParseFloat(s) ==
    LET neg  == s # <<>> /\ Head(s) = "-"
        body == IF neg THEN Tail(s) ELSE s
        ds   == DigitPrefix(body)
    IN  IF ds = <<>> THEN NaN
        ELSE Num(IF neg THEN -CharsToNat(ds, 0) ELSE CharsToNat(ds, 0))

\* JavaScript ToNumber on a primitive value: a string converts only as a whole
ToNumber(x) ==
    CASE x.t = "num"   -> x
      [] x.t = "nan"   -> NaN
      [] x.t = "bool"  -> IF x.v THEN Num(1) ELSE Num(0)
      [] x.t = "null"  -> Num(0)
      [] x.t = "undef" -> NaN
      [] x.t = "str"   -> IF x.v = <<>> THEN Num(0)
                          ELSE LET p == ParseFloat(x.v)
                               IN  IF p.t = "num" /\ ToStr(p) = x.v THEN p ELSE NaN
      [] OTHER         -> NaN

\* JavaScript ToBoolean
Truthy(x) ==
    CASE x.t = "num"   -> x.v # 0
      [] x.t = "nan"   -> FALSE
      [] x.t = "str"   -> x.v # <<>>
      [] x.t = "bool"  -> x.v
      [] x.t = "null"  -> FALSE
      [] x.t = "undef" -> FALSE
      [] OTHER         -> TRUE

\* JavaScript a === b on primitive values
StrictEq(a, b) == a.t = b.t /\ a.t # "nan" /\ a.v = b.v

\* JavaScript a == b (abstract equality) on primitive values
LooseEq(a, b) ==
    LET nullish(x) == x.t \in {"null", "undef"}
        numeric(x) == x.t \in {"num", "nan"}
    IN  IF a.t = b.t \/ (numeric(a) /\ numeric(b)) THEN StrictEq(a, b)
        ELSE IF nullish(a) \/ nullish(b) THEN nullish(a) /\ nullish(b)
        ELSE StrictEq(ToNumber(a), ToNumber(b))

\* JavaScript a + b on primitive values
JsAdd(a, b) ==
    IF a.t = "str" \/ b.t = "str" THEN Str(ToStr(a) \o ToStr(b))
    ELSE LET x == ToNumber(a)
             y == ToNumber(b)
         IN  IF x.t = "nan" \/ y.t = "nan" THEN NaN ELSE Num(x.v + y.v)

\* an integer product too large for the checker's integers, kept as its
\* two factors
Product(x, y) == [t |-> "product", v |-> <<x, y>>]

\* JavaScript a - b and a * b on primitive values
JsArith(op, a, b) ==
    LET x == ToNumber(a)
        y == ToNumber(b)
        abs(n) == IF n < 0 THEN -n ELSE n
    IN  IF x.t = "nan" \/ y.t = "nan" THEN NaN
        ELSE IF op = "-" THEN Num(x.v - y.v)
        ELSE IF y.v = 0 \/ abs(x.v) <= 2147483647 \div abs(y.v) THEN Num(x.v * y.v)
        ELSE Product(x.v, y.v)

\* JavaScript a / b where the quotient is an integer; any other quotient is
\* kept as the pair of its operands
JsDivide(a, b) ==
    LET x == ToNumber(a)
        y == ToNumber(b)
        n == IF y.v < 0 THEN -x.v ELSE x.v
        d == IF y.v < 0 THEN -y.v ELSE y.v
    IN  IF a.t = "product" /\ b.t = "num" /\ b.v # 0 /\ a.v[2] = b.v THEN Num(a.v[1])
        ELSE IF a.t = "product" \/ b.t = "product" THEN [t |-> "quotient", v |-> <<a, b>>]
        ELSE IF x.t = "nan" \/ y.t = "nan" THEN NaN
        ELSE IF d # 0 /\ n % d = 0 THEN Num(n \div d)
        ELSE [t |-> "quotient", v |-> <<a, b>>]

\* JavaScript Math.round(x): integers and products of integers are whole
MathRound(x) == IF x.t = "product" THEN x ELSE ToNumber(x)

\* JavaScript a < b on numbers and on values converted to numbers
JsLess(a, b) ==
    LET x == ToNumber(a)
        y == ToNumber(b)
    IN  x.t = "num" /\ y.t = "num" /\ x.v < y.v

\* body applied to value, the value being computed once (the host evaluates
\* a subexpression once and keeps its result)
Bind(value, body(_)) == CHOOSE out \in {body(x) : x \in {value}} : TRUE

(***************************************************************************)
(* Expression evaluator: environments (packages/sexp/src/evaluator.ts)     *)
(*                                                                         *)
(* A frame is [parent |-> index of the prototype frame or 0, b |-> own     *)
(* bindings]; an environment is an index into the sequence of frames.      *)
(***************************************************************************)
NoEnv == 0

Own(fr, env, name) == name \in DOMAIN fr[env].b

CreateEnv(fr, parent) == Append(fr, [parent |-> parent, b |-> <<>>])

GetParentEnv(fr, env) == fr[env].parent

RECURSIVE FindBinding(_, _, _)
FindBinding(fr, env, name) ==
    IF env = NoEnv THEN NoEnv
    ELSE IF Own(fr, env, name) THEN env
    ELSE FindBinding(fr, GetParentEnv(fr, env), name)

\* env[name] = value on a frame: always an own property of that frame
SetOwn(fr, env, name, value) ==
    [fr EXCEPT ![env].b = (name :> value) @@ @]

AssignBindingLocalOnly(fr, env, name, value) == SetOwn(fr, env, name, value)

AssignBinding(fr, env, name, value) ==
    LET target == FindBinding(fr, env, name)
    IN  IF target # NoEnv THEN SetOwn(fr, target, name, value)
        ELSE SetOwn(fr, env, name, value)

\* `name in env` follows the prototype chain, and so does env[name]
GetBinding(fr, env, name) ==
    LET holder == FindBinding(fr, env, name)
    IN  IF holder # NoEnv THEN fr[holder].b[name] ELSE Undef

(***************************************************************************)
(* Expression evaluator: evalExpr                                          *)
(*                                                                         *)
(* An evaluator instance st is [frames, maxDepth, mdr] (mdr is the         *)
(* maxDepthReached counter).  A result is [ok, val, err, st]: a thrown     *)
(* error is ok = FALSE with the message in err, and st holds whatever the  *)
(* evaluation had changed before it threw.                                 *)
(***************************************************************************)
Ok(v, st)  == [ok |-> TRUE, val |-> v, err |-> "", st |-> st]
Err(m, st) == [ok |-> FALSE, val |-> Null, err |-> m, st |-> st]

DepthError == "Maximum evaluation depth exceeded"

IsLambda(x) == x.t = "lambda"

Lambda(params, body, env) ==
    [t |-> "lambda", v |-> [params |-> params, body |-> body, closure |-> env]]

RECURSIVE ListName(_)
\* String(array) of a list of symbols: the names joined by commas
ListName(items) ==
    IF items = <<>> THEN ""
    ELSE IF Len(items) = 1 THEN Head(items).v
    ELSE Head(items).v \o "," \o ListName(Tail(items))

\* symName of a symbol, String(x) of anything else (names are kept whole)
NameOf(x) == IF x.t = "list" THEN ListName(x.v) ELSE x.v

\* a name as the string value `value ?? name` yields
NameStr(n) == Str(<<n>>)

RECURSIVE Join(_)
\* the string a character sequence spells
Join(chars) == IF chars = <<>> THEN "" ELSE Head(chars) \o Join(Tail(chars))

PrimNames ==
    {"+", "-", "*", "<", "<=", ">", ">=", "=", "!=", "and", "or", "not", "get", "set"}

\* the key a value names in an object: a string, or the digits of a number
KeyOf(key) == IF key.t \in {"str", "num"} THEN Join(ToStr(key)) ELSE ""

\* the primitive registry, applied to evaluated arguments
ArgAt(args, i) == IF i <= Len(args) THEN args[i] ELSE Undef

Primitive(name, args) ==
    LET a == ArgAt(args, 1)
        b == ArgAt(args, 2)
    IN  CASE name = "+"   -> JsAdd(a, b)
          [] name = "-"   -> JsArith("-", a, b)
          [] name = "*"   -> JsArith("*", a, b)
          [] name = "<"   -> Bool(JsLess(a, b))
          [] name = ">"   -> Bool(JsLess(b, a))
          [] name = "<="  -> Bool(JsLess(a, b) \/ StrictEq(ToNumber(a), ToNumber(b)))
          [] name = ">="  -> Bool(JsLess(b, a) \/ StrictEq(ToNumber(a), ToNumber(b)))
          [] name = "="   -> Bool(StrictEq(a, b))
          [] name = "!="  -> Bool(~StrictEq(a, b))
          [] name = "and" -> Bool(\A i \in 1..Len(args) : Truthy(args[i]))
          [] name = "or"  -> Bool(\E i \in 1..Len(args) : Truthy(args[i]))
          [] name = "not" -> Bool(~Truthy(a))
          \* the object primitives: the value under a key (null when there is
          \* none), and the object with the key set
          [] name = "get" -> IF a.t = "object" /\ KeyOf(b) \in DOMAIN a.v
                             THEN a.v[KeyOf(b)] ELSE Null
          [] name = "set" -> IF a.t = "object"
                             THEN [a EXCEPT !.v = (KeyOf(b) :> ArgAt(args, 3)) @@ @]
                             ELSE a

DepthExceededOffByOne(depth, st) == depth > st.maxDepth + 1

DepthExceeded(depth, st) == depth > st.maxDepth

HigherOrderOps == {"filter", "map", "find", "find-index", "sort-by", "count", "reduce", "fold"}

\* the branch of evalExpr an expression takes, in the order evalExpr tests
\* them
FormOf(expr) ==
    IF expr.t \in {"null", "num", "nan", "bool", "str"} THEN "atom"
    ELSE IF expr.t = "sym" THEN "symbol"
    ELSE IF expr.t # "list" THEN "other"
    ELSE IF expr.v = <<>> THEN "empty"
    ELSE IF Head(expr.v).t # "sym" THEN "call"
    ELSE IF Head(expr.v).v = "if" THEN "if"
    ELSE IF Head(expr.v).v = "let" THEN "let"
    ELSE IF Head(expr.v).v \in {"begin", "progn", "do"} THEN "begin"
    ELSE IF Head(expr.v).v = "quote" THEN "quote"
    ELSE IF Head(expr.v).v \in {"lambda", "fn"} THEN "lambda"
    ELSE IF Head(expr.v).v \in {"define", "defun"} THEN
        IF Len(expr.v) > 1 /\ expr.v[2].t = "list" THEN "define function"
        ELSE "define"
    ELSE IF Head(expr.v).v \in HigherOrderOps THEN "higher-order"
    ELSE "call"

RECURSIVE EvalExpr(_, _, _, _), EvalArgs(_, _, _, _), EvalSeq(_, _, _, _, _),
          EvalLambda(_, _, _, _), EvalLet(_, _, _, _), EvalCall(_, _, _, _),
          EachItem(_, _, _, _, _, _), Reduce(_, _, _, _, _, _), EvalHigherOrder(_, _, _, _)

EvalLambda(fn, argValues, depth, st) ==
    EvalExpr(fn.v.body, Len(st.frames) + 1, depth + 1,
             [st EXCEPT !.frames =
                 Append(@, [parent |-> fn.v.closure,
                            b |-> [n \in {fn.v.params[i] : i \in 1..Len(fn.v.params)} |->
                                     ArgAt(argValues,
                                           CHOOSE i \in 1..Len(fn.v.params) :
                                               /\ fn.v.params[i] = n
                                               /\ \A j \in 1..Len(fn.v.params) :
                                                      fn.v.params[j] = n => j <= i)]])])

\* args.map((arg) => evalExpr(arg, env, depth + 1)): [ok, vals, err, st]
EvalArgs(args, env, depth, st) ==
    IF args = <<>> THEN [ok |-> TRUE, vals |-> <<>>, err |-> "", st |-> st]
    ELSE Bind(EvalExpr(Head(args), env, depth + 1, st), LAMBDA r :
             IF ~r.ok THEN [ok |-> FALSE, vals |-> <<>>, err |-> r.err, st |-> r.st]
             ELSE Bind(EvalArgs(Tail(args), env, depth, r.st), LAMBDA rest :
                      [rest EXCEPT !.vals = <<r.val>> \o @]))

RECURSIVE EvalSeqRollback(_, _, _, _, _)
EvalSeqRollback(args, env, depth, st, result) ==
    IF args = <<>> THEN Ok(result, st)
    ELSE CHOOSE out \in {IF ~r.ok THEN [r EXCEPT !.st.frames = st.frames]
                          ELSE EvalExpr(args[Len(args)], env, depth + 1, r.st) :
                              r \in {EvalSeqRollback(SubSeq(args, 1, Len(args) - 1),
                                                     env, depth, st, result)}} : TRUE

\* begin/progn/do: each sub-expression in turn, the last value wins
EvalSeq(args, env, depth, st, result) ==
    CASE Len(args) = 0 -> Ok(result, st)
      [] Len(args) = 1 -> EvalExpr(args[1], env, depth + 1, st)
      [] Len(args) > 1 ->
            CHOOSE out \in {IF ~r.ok THEN r
                            ELSE EvalExpr(args[Len(args)], env, depth + 1, r.st) :
                                r \in {EvalSeq(SubSeq(args, 1, Len(args) - 1),
                                               env, depth, st, result)}} : TRUE

\* the binding loop of let, in letEnv
EvalLet(bindings, letEnv, depth, st) ==
    IF bindings = <<>> THEN Ok(Null, st)
    ELSE Bind(EvalExpr(Head(bindings).v[2], letEnv, depth + 1, st), LAMBDA r :
             IF ~r.ok THEN r
             ELSE EvalLet(Tail(bindings), letEnv, depth,
                          [r.st EXCEPT !.frames =
                              SetOwn(@, letEnv, NameOf(Head(bindings).v[1]), r.val)]))

\* a function call: the operator looked up in env, then among the
\* primitives, then evaluated as an expression
EvalCall(expr, env, depth, st) ==
    LET op      == Head(expr.v)
        opName  == IF op.t = "sym" THEN op.v ELSE ""
        opValue == IF opName # "" THEN GetBinding(st.frames, env, opName) ELSE Undef
    IN
    CASE IsLambda(opValue) ->
            CHOOSE out \in {IF ~a.ok THEN Err(a.err, a.st)
                            ELSE EvalLambda(opValue, a.vals, depth, a.st) :
                                a \in {EvalArgs(Tail(expr.v), env, depth, st)}} : TRUE
      [] ~IsLambda(opValue) /\ opName \in PrimNames ->
            CHOOSE out \in {IF ~a.ok THEN Err(a.err, a.st)
                            ELSE Ok(Primitive(opName, a.vals), a.st) :
                                a \in {EvalArgs(Tail(expr.v), env, depth, st)}} : TRUE
      [] ~IsLambda(opValue) /\ opName \notin PrimNames ->
            Bind(EvalExpr(op, env, depth + 1, st), LAMBDA f :
                CASE ~f.ok -> f
                  [] f.ok /\ ~IsLambda(f.val) -> Err("Unknown function", f.st)
                  [] f.ok /\ IsLambda(f.val) ->
                        Bind(EvalArgs(Tail(expr.v), env, depth, f.st), LAMBDA a :
                            IF ~a.ok THEN Err(a.err, a.st)
                            ELSE EvalLambda(f.val, a.vals, depth, a.st)))

\* the value a number-valued comparison sees in a key
KeyNumber(key) == IF key.t \in {"lambda", "list", "object"} THEN NaN ELSE ToNumber(key)

\* (aKey as number) - (bKey as number) <= 0, a NaN difference being taken
\* for 0 by the sort
KeyBefore(aKey, bKey) ==
    LET x == KeyNumber(aKey)
        y == KeyNumber(bKey)
    IN  x.t = "nan" \/ y.t = "nan" \/ x.v <= y.v

RECURSIVE SortByKeys(_, _, _, _)
\* [...list].sort(by the keys): a stable sort, each item put after the items
\* already placed that do not come after it
SortByKeys(items, keys, sorted, sortedKeys) ==
    IF items = <<>> THEN sorted
    ELSE LET at == CHOOSE i \in 0..Len(sorted) :
                       /\ \A j \in (i + 1)..Len(sorted) : ~KeyBefore(sortedKeys[j], Head(keys))
                       /\ i > 0 => KeyBefore(sortedKeys[i], Head(keys))
         IN  SortByKeys(Tail(items), Tail(keys),
                        SubSeq(sorted, 1, at) \o <<Head(items)>>
                            \o SubSeq(sorted, at + 1, Len(sorted)),
                        SubSeq(sortedKeys, 1, at) \o <<Head(keys)>>
                            \o SubSeq(sortedKeys, at + 1, Len(sortedKeys)))

\* the callback of list.filter, map, find, findIndex on each item in turn,
\* up to the first truthy result when untilTrue: fn is a closure called with
\* the item as its first parameter, or an expression evaluated in a child of
\* env that binds @ and it to the item; [ok, vals, err, st]
EachItem(fn, items, env, depth, st, untilTrue) ==
    IF items = <<>> THEN [ok |-> TRUE, vals |-> <<>>, err |-> "", st |-> st]
    ELSE Bind(IF IsLambda(fn)
              THEN EvalExpr(fn.v.body, Len(st.frames) + 1, depth + 1,
                            [st EXCEPT !.frames =
                                Append(@, [parent |-> fn.v.closure,
                                           b |-> IF fn.v.params = <<>>
                                                 THEN "undefined" :> Head(items)
                                                 ELSE fn.v.params[1] :> Head(items)])])
              ELSE EvalExpr(fn, Len(st.frames) + 1, depth + 1,
                            [st EXCEPT !.frames =
                                Append(@, [parent |-> env,
                                           b |-> ("@" :> Head(items)) @@
                                                 ("it" :> Head(items))])]),
              LAMBDA r :
             IF ~r.ok THEN [ok |-> FALSE, vals |-> <<>>, err |-> r.err, st |-> r.st]
             ELSE IF untilTrue /\ Truthy(r.val)
             THEN [ok |-> TRUE, vals |-> <<r.val>>, err |-> "", st |-> r.st]
             ELSE Bind(EachItem(fn, Tail(items), env, depth, r.st, untilTrue), LAMBDA rest :
                      [rest EXCEPT !.vals = <<r.val>> \o @]))

\* the loops of reduce: fn is a closure called with acc and the item, or
\* [names, body] evaluated in a child of env that binds the two names
Reduce(fn, items, acc, env, depth, st) ==
    IF items = <<>> THEN Ok(acc, st)
    ELSE Bind(IF IsLambda(fn)
              THEN EvalExpr(fn.v.body, Len(st.frames) + 1, depth + 1,
                            [st EXCEPT !.frames =
                                Append(@, [parent |-> fn.v.closure,
                                           b |-> (fn.v.params[2] :> Head(items)) @@
                                                 (fn.v.params[1] :> acc)])])
              ELSE EvalExpr(fn.body, Len(st.frames) + 1, depth + 1,
                            [st EXCEPT !.frames =
                                Append(@, [parent |-> env,
                                           b |-> (fn.names[2] :> Head(items)) @@
                                                 (fn.names[1] :> acc)])]),
              LAMBDA r :
             IF ~r.ok THEN r ELSE Reduce(fn, Tail(items), r.val, env, depth, r.st))

\* filter, map, find, find-index, sort-by, count, reduce and fold
EvalHigherOrder(expr, env, depth, st) ==
    LET opName == Head(expr.v).v
        args   == Tail(expr.v)
        listAt == IF opName \in {"filter", "map"} THEN 2 ELSE 1
    IN
    Bind(EvalExpr(args[listAt], env, depth + 1, st), LAMBDA list :
    IF ~list.ok THEN list
    ELSE
    CASE opName \in {"filter", "map"} ->
            Bind(EvalExpr(args[1], env, depth + 1, list.st), LAMBDA fn :
                IF ~fn.ok THEN fn
                ELSE Bind(EachItem(IF IsLambda(fn.val) THEN fn.val ELSE args[1],
                                   list.val.v, env, depth, fn.st, FALSE), LAMBDA each :
                         IF ~each.ok THEN Err(each.err, each.st)
                         ELSE IF opName = "map" THEN Ok(List(each.vals), each.st)
                         ELSE LET kept == SelectSeq([i \in 1..Len(each.vals) |-> i],
                                                    LAMBDA i : Truthy(each.vals[i]))
                              IN  Ok(List([k \in 1..Len(kept) |-> list.val.v[kept[k]]]),
                                     each.st)))
      [] opName \in {"find", "find-index"} ->
            Bind(EachItem(args[2], list.val.v, env, depth, list.st, TRUE), LAMBDA each :
                IF ~each.ok THEN Err(each.err, each.st)
                ELSE LET found == each.vals # <<>> /\ Truthy(each.vals[Len(each.vals)])
                     IN  IF opName = "find"
                         THEN Ok(IF found THEN list.val.v[Len(each.vals)] ELSE Null, each.st)
                         ELSE Ok(IF found THEN Num(Len(each.vals) - 1) ELSE Num(-1),
                                 each.st))
      [] opName = "sort-by" ->
            Bind(EachItem(args[2], list.val.v, env, depth, list.st, FALSE), LAMBDA each :
                IF ~each.ok THEN Err(each.err, each.st)
                ELSE Ok(List(SortByKeys(list.val.v, each.vals, <<>>, <<>>)), each.st))
      [] opName = "count" ->
            IF Len(args) < 2 THEN Ok(Num(Len(list.val.v)), list.st)
            ELSE Bind(EachItem(args[2], list.val.v, env, depth, list.st, FALSE),
                      LAMBDA each :
                     IF ~each.ok THEN Err(each.err, each.st)
                     ELSE Ok(Num(Cardinality({i \in 1..Len(each.vals) :
                                                 Truthy(each.vals[i])})), each.st))
      [] opName \in {"reduce", "fold"} ->
            Bind(EvalExpr(args[2], env, depth + 1, list.st), LAMBDA init :
                IF ~init.ok THEN init
                ELSE IF Len(args) = 4
                THEN Reduce([t |-> "names",
                             names |-> <<NameOf(args[3].v[1]), NameOf(args[3].v[2])>>,
                             body |-> args[4]],
                            list.val.v, init.val, env, depth, init.st)
                ELSE Bind(EvalExpr(args[3], env, depth + 1, init.st), LAMBDA fn :
                         IF ~fn.ok THEN fn
                         ELSE IF IsLambda(fn.val)
                         THEN Reduce(fn.val, list.val.v, init.val, env, depth, fn.st)
                         ELSE Err("reduce requires a function", fn.st))))

EvalExpr(expr, env, depth, st0) ==
    CHOOSE out \in {
    LET form   == IF DepthExceeded(depth, st) THEN "too deep" ELSE FormOf(expr)
        args   == Tail(expr.v)
        arg(i) == IF i <= Len(args) THEN args[i] ELSE Undef
    IN
    CASE form = "too deep" -> Err(DepthError, st)
      [] form = "atom" -> Ok(expr, st)
      [] form = "symbol" ->
            Bind(GetBinding(st.frames, env, expr.v), LAMBDA value :
                Ok(IF value.t \in {"null", "undef"} THEN NameStr(expr.v) ELSE value, st))
      [] form = "other" -> Err("Cannot evaluate", st)
      [] form = "empty" -> Ok(List(<<>>), st)
      [] form = "if" ->
            CHOOSE out \in {IF ~c.ok THEN c
                            ELSE EvalExpr(IF Truthy(c.val) THEN arg(2) ELSE arg(3),
                                          env, depth + 1, c.st) :
                                c \in {EvalExpr(arg(1), env, depth + 1, st)}} : TRUE
      [] form = "let" ->
            Bind(CreateEnv(st.frames, env), LAMBDA fr1 :
                Bind(EvalLet(arg(1).v, Len(fr1), depth, [st EXCEPT !.frames = fr1]),
                     LAMBDA b :
                    IF ~b.ok THEN b ELSE EvalExpr(arg(2), Len(fr1), depth + 1, b.st)))
      [] form = "begin" -> EvalSeq(args, env, depth, st, Null)
      [] form = "quote" ->
            Ok(IF arg(1).t = "sym" THEN NameStr(arg(1).v) ELSE arg(1), st)
      [] form = "lambda" ->
            Ok(Lambda([i \in 1..Len(arg(1).v) |-> NameOf(arg(1).v[i])], arg(2), env), st)
      [] form = "define function" ->
            Bind(Lambda([i \in 1..(Len(arg(1).v) - 1) |-> NameOf(arg(1).v[i + 1])],
                        arg(2), env), LAMBDA fn :
                Ok(fn, [st EXCEPT !.frames =
                           AssignBinding(@, env, NameOf(Head(arg(1).v)), fn)]))
      [] form = "define" ->
            Bind(EvalExpr(arg(2), env, depth + 1, st), LAMBDA r :
                IF ~r.ok THEN r
                ELSE Ok(r.val, [r.st EXCEPT !.frames =
                                   AssignBinding(@, env, NameOf(arg(1)), r.val)]))
      [] form = "higher-order" -> EvalHigherOrder(expr, env, depth, st)
      [] form = "call" -> EvalCall(expr, env, depth, st)
        : st \in {[st0 EXCEPT !.mdr = IF depth > @ THEN depth ELSE @]}} : TRUE

(***************************************************************************)
(* Specification SpecEnv: the environment chain under define, call, let    *)
(* and return.                                                             *)
(*                                                                         *)
(* stack holds the environment of every evalExpr call in progress, the     *)
(* current one last.  The body of a called function is whatever sequence   *)
(* of the actions below happens before its Return.                         *)
(***************************************************************************)
MaxFrames == 3

DefaultMaxDepth == 100

VarNames == {"x", "y"}

FnName == "f"

DefValues == {Num(1)}

NoDef == [kind |-> "none"]

NoRun == [kind |-> "none"]

Top == stack[Len(stack)]

EnvSt == [frames |-> frames, maxDepth |-> DefaultMaxDepth, mdr |-> 0]

\* the embedder's environment: empty, or holding x
InitEnv ==
    /\ frames \in {<<[parent |-> NoEnv, b |-> <<>>]>>,
                   <<[parent |-> NoEnv, b |-> ("x" :> Num(0))]>>}
    /\ stack = <<1>>
    /\ lastDef = NoDef
    /\ evRun = NoRun
    /\ path = "none"
    /\ cenv = <<>>
    /\ objHist = NoRun
    /\ opRun = NoRun
    /\ parseRun = NoRun
    /\ calc = <<>>
    /\ calcTrace = <<>>
    /\ loopRun = NoRun
    /\ rt = NoRun
    /\ tokRun = NoRun

\* evalExpr of (define name v) in the current environment
EvalDefine(name, v) ==
    LET r == EvalExpr(List(<<Sym("define"), Sym(name), v>>), Top, Len(stack) - 1, EnvSt)
    IN  /\ r.ok
        /\ frames' = r.st.frames
        /\ lastDef' = [kind |-> "define", env |-> Top, name |-> name, val |-> v,
                       pre |-> frames]
        /\ UNCHANGED <<stack, evRun, path, cenv, objHist, opRun, parseRun, calc, calcTrace,
                     bridgeVars>>

\* evalExpr of (define (f p) body): a closure over the current environment
EvalDefun ==
    LET r == EvalExpr(List(<<Sym("define"), List(<<Sym(FnName), Sym("y")>>), Null>>),
                      Top, Len(stack) - 1, EnvSt)
    IN  /\ r.ok
        /\ frames' = r.st.frames
        /\ lastDef' = [kind |-> "define", env |-> Top, name |-> FnName, val |-> r.val,
                       pre |-> frames]
        /\ UNCHANGED <<stack, evRun, path, cenv, objHist, opRun, parseRun, calc, calcTrace,
                     bridgeVars>>

\* evalExpr of (f v) up to the point where the body starts: evalLambda has
\* created the call environment under the closure's and bound the parameter
CallLambda(v) ==
    LET fn      == GetBinding(frames, Top, FnName)
        fr1     == CreateEnv(frames, fn.v.closure)
        callEnv == Len(fr1)
    IN  /\ Len(frames) < MaxFrames
        /\ IsLambda(fn)
        /\ frames' = SetOwn(fr1, callEnv, fn.v.params[1], v)
        /\ stack' = Append(stack, callEnv)
        /\ UNCHANGED <<lastDef, evRun, path, cenv, objHist, opRun, parseRun, calc, calcTrace,
                     bridgeVars>>

\* evalExpr of (let () body) up to the point where the body starts
EnterLet ==
    /\ Len(frames) < MaxFrames
    /\ frames' = CreateEnv(frames, Top)
    /\ stack' = Append(stack, Len(frames'))
    /\ UNCHANGED <<lastDef, evRun, path, cenv, objHist, opRun, parseRun, calc, calcTrace,
                     bridgeVars>>

\* the evalExpr call in progress returns to its caller
Return ==
    /\ Len(stack) > 1
    /\ stack' = SubSeq(stack, 1, Len(stack) - 1)
    /\ UNCHANGED <<frames, lastDef, evRun, path, cenv, objHist, opRun, parseRun, calc, calcTrace,
                     bridgeVars>>

NextEnv ==
    \/ \E n \in VarNames, v \in DefValues : EvalDefine(n, v)
    \/ EvalDefun
    \/ \E v \in DefValues : CallLambda(v)
    \/ EnterLet
    \/ Return

SpecEnv == InitEnv /\ [][NextEnv]_vars

\* the frames on the chain of env, innermost first
RECURSIVE Chain(_, _)
Chain(fr, env) == IF env = NoEnv THEN <<>> ELSE <<env>> \o Chain(fr, fr[env].parent)

\* the first frame of the chain of env that holds name itself, or NoEnv
NearestBinder(fr, env, name) ==
    LET c == Chain(fr, env)
        S == {i \in 1..Len(c) : name \in DOMAIN fr[c[i]].b}
    IN  IF S = {} THEN NoEnv ELSE c[CHOOSE i \in S : \A j \in S : i <= j]

OnStack(env) == \E i \in 1..Len(stack) : stack[i] = env

\* C1: after (define name v) is evaluated in a frame whose chain binds name
\* in an enclosing frame, the nearest such frame holds v for name, the frame
\* of the define has gained no binding for name, no other frame has changed,
\* and looking name up through either frame gives v: also once the call
\* that evaluated the define has returned.
C1_DefineMutatesOuterBinding ==
    lastDef.kind = "define" =>
        LET a == NearestBinder(lastDef.pre, lastDef.env, lastDef.name)
        IN  (a # NoEnv /\ a # lastDef.env) =>
                /\ frames[a].b[lastDef.name] = lastDef.val
                /\ lastDef.name \notin DOMAIN frames[lastDef.env].b
                /\ GetBinding(frames, a, lastDef.name) = lastDef.val
                /\ GetBinding(frames, lastDef.env, lastDef.name) = lastDef.val
                /\ \A f \in 1..Len(lastDef.pre) :
                       f # a => frames[f] = lastDef.pre[f]
                /\ \A m \in DOMAIN lastDef.pre[a].b :
                       m # lastDef.name => frames[a].b[m] = lastDef.pre[a].b[m]

\* C1 witness: a define made inside a call changed a binding held by an
\* enclosing frame, and that call has returned
C1_Witness ==
    /\ lastDef.kind = "define"
    /\ LET a == NearestBinder(lastDef.pre, lastDef.env, lastDef.name)
       IN  /\ a # NoEnv
           /\ a # lastDef.env
           /\ lastDef.pre[a].b[lastDef.name] # lastDef.val
           /\ frames[a].b[lastDef.name] = lastDef.val
    /\ ~OnStack(lastDef.env)
    /\ Len(frames) = Len(lastDef.pre)

(***************************************************************************)
(* Specification SpecDepth: evaluate() of whole programs under a           *)
(* configured maxDepth.                                                    *)
(***************************************************************************)
MaxMaxDepth == 8

MaxK == 3

ProgKinds == {"nest", "rec", "for", "forK"}

RECURSIVE Nest(_, _)
\* k progn forms around e
Nest(k, e) == IF k = 0 THEN e ELSE List(<<Sym("progn"), Nest(k - 1, e)>>)

\* a self-recursive closure, its call to itself wrapped in k progn forms
SelfRec(k) ==
    List(<<Sym("progn"),
           List(<<Sym("define"), List(<<Sym("f"), Sym("y")>>),
                  Nest(k, List(<<Sym("f"), Sym("y")>>))>>),
           List(<<Sym("f"), Num(1)>>)>>)

\* transform-for-statement of `for (i = 0; test; i = i + 1) { body }`
TransformForStatement(test, body) ==
    List(<<Sym("progn"),
           List(<<Sym("define"), Sym("i"), Num(0)>>),
           List(<<Sym("define"), List(<<Sym("__for_loop")>>),
                  List(<<Sym("if"), test,
                         List(<<Sym("progn"), body,
                                List(<<Sym("define"), Sym("i"),
                                       List(<<Sym("+"), Sym("i"), Num(1)>>)>>),
                                List(<<Sym("__for_loop")>>)>>),
                         Null>>)>>),
           List(<<Sym("__for_loop")>>)>>)

Program(kind, k) ==
    CASE kind = "nest" -> Nest(k, Num(7))
      [] kind = "rec"  -> SelfRec(k)
      [] kind = "for"  -> TransformForStatement(Bool(TRUE), Nest(k, Num(7)))
      [] kind = "forK" -> TransformForStatement(List(<<Sym("<"), Sym("i"), Num(k)>>), Num(7))

\* createEvaluator({maxDepth}).evaluate(expr, {})
EvaluateRoot(expr, maxDepth) ==
    EvalExpr(expr, 1, 0, [frames |-> <<[parent |-> NoEnv, b |-> <<>>]>>,
                          maxDepth |-> maxDepth, mdr |-> 0])

InitDepth ==
    /\ evRun = NoRun
    /\ frames = <<>>
    /\ stack = <<>>
    /\ lastDef = NoDef
    /\ path = "none"
    /\ cenv = <<>>
    /\ objHist = NoRun
    /\ opRun = NoRun
    /\ parseRun = NoRun
    /\ calc = <<>>
    /\ calcTrace = <<>>
    /\ loopRun = NoRun
    /\ rt = NoRun
    /\ tokRun = NoRun

Evaluate(kind, k, maxDepth) ==
    LET r == EvaluateRoot(Program(kind, k), maxDepth)
    IN  /\ evRun' = [kind |-> kind, k |-> k, maxDepth |-> maxDepth,
                     ok |-> r.ok, err |-> r.err, val |-> r.val, mdr |-> r.st.mdr]
        /\ UNCHANGED <<frames, stack, lastDef, path, cenv, objHist, opRun, parseRun, calc, calcTrace,
                     bridgeVars>>

NextDepth == \E kind \in ProgKinds, k \in 0..MaxK, maxDepth \in 1..MaxMaxDepth :
                 Evaluate(kind, k, maxDepth)

SpecDepth == InitDepth /\ [][NextDepth]_vars

\* C4: whatever the program and whatever maxDepth >= 1, evaluation never
\* nests more than one level past maxDepth, and an evaluation that reaches
\* that level ends with the error 'Maximum evaluation depth exceeded'; the
\* self-recursive closure and the for-loop whose test stays true always end
\* that way, and k nested forms are evaluated exactly when k <= maxDepth.
C4_DepthGuardTerminates ==
    evRun # NoRun =>
        /\ evRun.mdr <= evRun.maxDepth + 1
        /\ evRun.mdr > evRun.maxDepth => (~evRun.ok /\ evRun.err = DepthError)
        /\ evRun.mdr <= evRun.maxDepth => evRun.ok
        /\ evRun.kind \in {"rec", "for"} => (~evRun.ok /\ evRun.err = DepthError)
        /\ evRun.kind = "nest" => (evRun.ok <=> evRun.k <= evRun.maxDepth)

\* C4 witness: the endless for-loop was stopped by the depth error
C4_Witness ==
    /\ evRun # NoRun
    /\ evRun.kind = "for"
    /\ evRun.maxDepth > 1
    /\ ~evRun.ok
    /\ evRun.err = DepthError
    /\ evRun.mdr = evRun.maxDepth + 1

(***************************************************************************)
(* Surface language: syntax trees (packages/seval/src/seval-ast.ts)        *)
(***************************************************************************)
Literal(v) == [kind |-> "Literal", value |-> v]

Identifier(name) == [kind |-> "Identifier", name |-> name]

MemberExpression(object, property) ==
    [kind |-> "MemberExpression", object |-> object, property |-> property]

\* object[property], the key an expression
ComputedMember(object, property) ==
    [kind |-> "ComputedMember", object |-> object, property |-> property]

AssignmentStatement(target, value) ==
    [kind |-> "AssignmentStatement", target |-> target, value |-> value]

BinaryExpression(operator, left, right) ==
    [kind |-> "BinaryExpression", operator |-> operator, left |-> left, right |-> right]

TernaryExpression(condition, consequent, alternate) ==
    [kind |-> "TernaryExpression", condition |-> condition,
     consequent |-> consequent, alternate |-> alternate]

BlockExpression(statements) == [kind |-> "BlockExpression", statements |-> statements]

UnaryExpression(operator, operand) ==
    [kind |-> "UnaryExpression", operator |-> operator, operand |-> operand]

CallExpression(callee, args) == [kind |-> "CallExpression", callee |-> callee, args |-> args]

\* alternate is NoAlternate when the statement has no else
IfStatement(condition, consequent, alternate) ==
    [kind |-> "IfStatement", condition |-> condition,
     consequent |-> consequent, alternate |-> alternate]

NoAlternate == [kind |-> "undefined"]

FunctionDef(name, params, body) ==
    [kind |-> "FunctionDef", name |-> name, params |-> params, body |-> body]

ArrowFunction(params, body) == [kind |-> "ArrowFunction", params |-> params, body |-> body]

ObjectLiteral(properties) == [kind |-> "ObjectLiteral", properties |-> properties]

\* a member of an object literal as the self-hosted parser builds it
Property(key, value, method, params) ==
    [key |-> key, value |-> value, method |-> method, params |-> params]

\* the for statement, a node only the self-hosted parser builds
ForStatement(init, test, update, body) ==
    [kind |-> "ForStatement", init |-> init, test |-> test, update |-> update,
     body |-> body]

\* the value of `this` inside a method: a reference to the receiving object
This == [t |-> "this", v |-> 0]

\* obj[name] on a host object held as a function from names to values
Prop(obj, name) == IF name \in DOMAIN obj THEN obj[name] ELSE Undef

\* obj[name] = value
SetProp(obj, name, value) == (name :> value) @@ obj

(***************************************************************************)
(* The surface data model of the runtime bridge (SExpRuntime.ts of         *)
(* packages/react-code and SevalRuntime; the two files hold the same       *)
(* helpers).  A data model is a function from keys to values; a nested     *)
(* object is Object(f), an array List(seq).  Paths and keys are character  *)
(* sequences, as strings are everywhere else.                              *)
(***************************************************************************)
\* host values: a whitelisted global or helper, a compiled function, an object
Host(name) == [t |-> "host", v |-> name]

Function(func) == [t |-> "function", v |-> func]

Object(obj) == [t |-> "object", v |-> obj]

RECURSIVE SplitLoop(_, _, _)
SplitLoop(chars, segment, done) ==
    IF chars = <<>> THEN Append(done, segment)
    ELSE IF Head(chars) = "/" THEN SplitLoop(Tail(chars), <<>>, Append(done, segment))
    ELSE SplitLoop(Tail(chars), Append(segment, Head(chars)), done)

\* key.split('/').filter(Boolean)
Segments(key) == SelectSeq(SplitLoop(key, <<>>, <<>>), LAMBDA segment : segment # <<>>)

\* Number.isInteger(Number(seg)), for the segments that are digits or names
IsIndex(segment) == \A i \in 1..Len(segment) : IsDigit(segment[i])

\* path.startsWith('/') ? path.slice(1) : path
StripLeadingSlash(text) == IF text # <<>> /\ Head(text) = "/" THEN Tail(text) ELSE text

RECURSIVE ValueToJS(_)
\* valueToJS: a non-empty list whose first element is a [string, value] pair
\* becomes an object, any other list is converted element by element
ValueToJS(value) ==
    IF value.t # "list" THEN value
    ELSE IF /\ value.v # <<>>
            /\ value.v[1].t = "list"
            /\ Len(value.v[1].v) = 2
            /\ value.v[1].v[1].t = "str"
    THEN LET pairs == SelectSeq(value.v, LAMBDA pair : pair.t = "list" /\ Len(pair.v) = 2)
             keys  == {Join(ToStr(pairs[i].v[1])) : i \in 1..Len(pairs)}
         IN  Object([key \in keys |->
                 ValueToJS(pairs[CHOOSE i \in 1..Len(pairs) :
                                     /\ Join(ToStr(pairs[i].v[1])) = key
                                     /\ \A j \in 1..Len(pairs) :
                                            Join(ToStr(pairs[j].v[1])) = key => j <= i].v[2])])
    ELSE List([i \in 1..Len(value.v) |-> ValueToJS(value.v[i])])

\* cursor[segIndex]
SegmentOf(cursor, segment) ==
    IF cursor.t = "list"
    THEN IF IsIndex(segment) /\ CharsToNat(segment, 0) < Len(cursor.v)
         THEN cursor.v[CharsToNat(segment, 0) + 1] ELSE Undef
    ELSE Prop(cursor.v, Join(segment))

\* cursor[segIndex] = value on a copy of the container: an array grows,
\* with undefined in the holes, when the index is past its end
SetSegment(cursor, segment, value) ==
    IF cursor.t = "list"
    THEN LET index == CharsToNat(segment, 0)
             size  == IF index < Len(cursor.v) THEN Len(cursor.v) ELSE index + 1
         IN  List([i \in 1..size |->
                     IF i = index + 1 THEN value
                     ELSE IF i <= Len(cursor.v) THEN cursor.v[i] ELSE Undef])
    ELSE Object(SetProp(cursor.v, Join(segment), value))

RECURSIVE SetSegments(_, _, _)
\* the loop of setNestedValue from one segment on: containers on the way are
\* copied, or created as an array or an object by the kind of the next
\* segment
SetSegments(cursor, segments, value) ==
    IF Len(segments) = 1 THEN SetSegment(cursor, segments[1], value)
    ELSE LET nextVal == SegmentOf(cursor, segments[1])
             nextContainer ==
                 IF nextVal.t \in {"list", "object"} THEN nextVal
                 ELSE IF IsIndex(segments[2]) THEN List(<<>>)
                 ELSE Object(<<>>)
         IN  SetSegment(cursor, segments[1],
                        SetSegments(nextContainer, Tail(segments), value))

\* setNestedValue(data, key, value)
SetNestedValue(data, key, value) ==
    IF \A i \in 1..Len(key) : key[i] # "/" THEN SetProp(data, Join(key), value)
    ELSE IF Segments(key) = <<>> THEN data
    ELSE SetSegments(Object(data), Segments(key), value).v

\* updateDataModel(surface, key, value): the data model it sets
UpdateDataModel(dataModel, key, value) == SetNestedValue(dataModel, key, ValueToJS(value))

\* the surface the runtime's set helper has captured travels with the
\* receiver of a compiled method under a key no program can spell
SurfaceSlot == "[[surface]]"

SetCalledSlot == "[[setWasCalled]]"

\* set(path, value) of SevalRuntime.handleAction, called on the receiver
SetHelper(th, args) ==
    SetProp(SetProp(th, SetCalledSlot, Bool(TRUE)),
            SurfaceSlot,
            Object(UpdateDataModel(th[SurfaceSlot].v, ToStr(ArgAt(args, 1)), ArgAt(args, 2))))

(***************************************************************************)
(* Backend B: native compilation (packages/seval/src/seval-compiler.ts).   *)
(*                                                                         *)
(* compileExpression emits host code; CompileExpression is what that code  *)
(* computes when run with receiver th and parameter values ps.  A result   *)
(* is [ok, val, th, ps]; ok = FALSE is a thrown host error.                *)
(***************************************************************************)
NOk(v, th, ps) == [ok |-> TRUE, val |-> v, th |-> th, ps |-> ps]

NErr(th, ps) == [ok |-> FALSE, val |-> Undef, th |-> th, ps |-> ps]

\* the host operator `(left op right)` on evaluated operands
HostBinary(op, a, b) ==
    CASE op = "=="  -> Bool(LooseEq(a, b))
      [] op = "!="  -> Bool(~LooseEq(a, b))
      [] op = "+"   -> JsAdd(a, b)
      [] op = "-"   -> JsArith("-", a, b)
      [] op = "*"   -> JsArith("*", a, b)
      [] op = "/"   -> JsDivide(a, b)
      [] op = "<"   -> Bool(JsLess(a, b))
      [] op = ">"   -> Bool(JsLess(b, a))

\* the whitelisted host globals of the primitives table that programs name
HostGlobals == {"Math", "Number", "String"}

\* a host function applied to evaluated arguments
HostCall(name, args) ==
    CASE name = "String" -> Str(ToStr(ArgAt(args, 1)))
      [] name = "Number.parseFloat" -> ParseFloat(ToStr(ArgAt(args, 1)))
      [] name = "Math.round" -> MathRound(ArgAt(args, 1))

RECURSIVE CompileExpression(_, _, _), CompileBlock(_, _, _, _), CompileArgs(_, _, _, _),
          CompileFunction(_, _, _)

CompileExpression(node, th, ps) ==
    CASE node.kind = "Literal" -> NOk(node.value, th, ps)
      [] node.kind = "Identifier" ->
            IF node.name = "this" THEN NOk(This, th, ps)
            ELSE IF node.name \in DOMAIN ps THEN NOk(ps[node.name], th, ps)
            ELSE IF node.name \in HostGlobals THEN NOk(Host(node.name), th, ps)
            ELSE NOk(Prop(th, node.name), th, ps)
      [] node.kind = "MemberExpression" ->
            Bind(CompileExpression(node.object, th, ps), LAMBDA o :
                IF ~o.ok THEN o
                ELSE IF o.val = This THEN NOk(Prop(o.th, node.property), o.th, o.ps)
                ELSE IF o.val.t \in {"null", "undef"} THEN NErr(o.th, o.ps)
                ELSE IF o.val.t = "object" THEN NOk(Prop(o.val.v, node.property), o.th, o.ps)
                ELSE IF o.val.t = "host"
                THEN NOk(Host(o.val.v \o "." \o node.property), o.th, o.ps)
                ELSE NOk(Undef, o.th, o.ps))
      [] node.kind = "BinaryExpression" ->
            Bind(CompileExpression(node.left, th, ps), LAMBDA l :
                IF ~l.ok THEN l
                ELSE IF node.operator = "&&" /\ ~Truthy(l.val) THEN l
                ELSE IF node.operator = "||" /\ Truthy(l.val) THEN l
                ELSE Bind(CompileExpression(node.right, l.th, l.ps), LAMBDA r :
                         IF ~r.ok \/ node.operator \in {"&&", "||"} THEN r
                         ELSE NOk(HostBinary(node.operator, l.val, r.val), r.th, r.ps)))
      [] node.kind = "TernaryExpression" ->
            Bind(CompileExpression(node.condition, th, ps), LAMBDA c :
                IF ~c.ok THEN c
                ELSE IF Truthy(c.val) THEN CompileExpression(node.consequent, c.th, c.ps)
                ELSE CompileExpression(node.alternate, c.th, c.ps))
      [] node.kind = "AssignmentStatement" ->
            Bind(IF node.target.kind = "MemberExpression"
                 THEN CompileExpression(node.target.object, th, ps)
                 ELSE NOk(This, th, ps), LAMBDA o :
                IF ~o.ok THEN o
                ELSE Bind(CompileExpression(node.value, o.th, o.ps), LAMBDA r :
                    IF ~r.ok THEN r
                    ELSE IF node.target.kind = "Identifier" /\ node.target.name \in DOMAIN ps
                         THEN NOk(r.val, r.th, SetProp(r.ps, node.target.name, r.val))
                    ELSE IF node.target.kind = "Identifier"
                         THEN NOk(r.val, SetProp(r.th, node.target.name, r.val), r.ps)
                    ELSE IF o.val = This
                         THEN NOk(r.val, SetProp(r.th, node.target.property, r.val), r.ps)
                    ELSE IF o.val.t \in {"null", "undef"} THEN NErr(r.th, r.ps)
                    ELSE r))
      [] node.kind = "BlockExpression" ->
            CompileBlock(node.statements, th, ps, Undef)
      [] node.kind = "UnaryExpression" ->
            Bind(CompileExpression(node.operand, th, ps), LAMBDA o :
                IF ~o.ok THEN o
                ELSE IF node.operator = "!" THEN NOk(Bool(~Truthy(o.val)), o.th, o.ps)
                ELSE NOk(JsArith("-", Num(0), o.val), o.th, o.ps))
      [] node.kind = "IfStatement" ->
            Bind(CompileExpression(node.condition, th, ps), LAMBDA c :
                IF ~c.ok THEN c
                ELSE IF Truthy(c.val) THEN CompileExpression(node.consequent, c.th, c.ps)
                ELSE IF node.alternate = NoAlternate THEN NOk(Null, c.th, c.ps)
                ELSE CompileExpression(node.alternate, c.th, c.ps))
      [] node.kind = "CallExpression" ->
            Bind(CompileExpression(node.callee, th, ps), LAMBDA f :
                IF ~f.ok THEN f
                ELSE Bind(CompileArgs(node.args, f.th, f.ps, <<>>), LAMBDA a :
                    IF ~a.ok THEN a
                    ELSE IF f.val.t = "host" /\ f.val.v \in {"String", "Number.parseFloat",
                                                             "Math.round"}
                    THEN NOk(HostCall(f.val.v, a.val), a.th, a.ps)
                    ELSE IF f.val = Host("set") /\ node.callee.kind = "Identifier"
                    THEN NOk(Undef, SetHelper(a.th, a.val), a.ps)
                    \* this.name(...) and name(...) are called on the receiver
                    ELSE IF /\ f.val.t = "function"
                            /\ \/ /\ node.callee.kind = "Identifier"
                                  /\ node.callee.name \notin DOMAIN ps
                               \/ /\ node.callee.kind = "MemberExpression"
                                  /\ node.callee.object = Identifier("this")
                    THEN Bind(CompileFunction(f.val.v, a.th, a.val), LAMBDA r :
                             [ok |-> r.ok, val |-> r.val, th |-> r.th, ps |-> a.ps])
                    ELSE NErr(a.th, a.ps)))

\* the arguments of a call, evaluated left to right; val is their sequence
CompileArgs(args, th, ps, vals) ==
    IF args = <<>> THEN NOk(vals, th, ps)
    ELSE Bind(CompileExpression(Head(args), th, ps), LAMBDA r :
             IF ~r.ok THEN r
             ELSE CompileArgs(Tail(args), r.th, r.ps, Append(vals, r.val)))

\* the statements of a block in order; the value of the last one is returned
CompileBlock(statements, th, ps, last) ==
    IF statements = <<>> THEN NOk(last, th, ps)
    ELSE Bind(CompileExpression(Head(statements), th, ps), LAMBDA r :
             IF ~r.ok THEN r ELSE CompileBlock(Tail(statements), r.th, r.ps, r.val))

\* the wrapper compileFunction returns, applied to a receiver and arguments
CompileFunction(func, th, args) ==
    Bind([p \in {func.params[i] : i \in 1..Len(func.params)} |->
             ArgAt(args, CHOOSE i \in 1..Len(func.params) :
                           /\ func.params[i] = p
                           /\ \A j \in 1..Len(func.params) :
                                  func.params[j] = p => j <= i)],
         LAMBDA ps : CompileExpression(func.body, th, ps))

(***************************************************************************)
(* The tree-walking Interpreter (packages/seval/src/seval-interpreter.ts). *)
(*                                                                         *)
(* A result is [ok, val, env, genv]: env is the environment object the     *)
(* node was evaluated in, genv the interpreter's globalEnv.                *)
(***************************************************************************)
IOk(v, env, genv) == [ok |-> TRUE, val |-> v, env |-> env, genv |-> genv]

IErr(env, genv) == [ok |-> FALSE, val |-> Undef, env |-> env, genv |-> genv]

\* opMap of the BinaryExpression case
OpMap(operator) ==
    CASE operator = "==" -> "="
      [] operator = "&&" -> "and"
      [] operator = "||" -> "or"
      [] OTHER           -> operator

RECURSIVE InterpEvaluate(_, _, _)

InterpEvaluate(node, env, genv) ==
    CASE node.kind = "Literal" ->
            IF node.value.t = "null" THEN IErr(env, genv) ELSE IOk(node.value, env, genv)
      [] node.kind = "Identifier" ->
            IF node.name = "this" THEN IOk(This, env, genv)
            ELSE IF node.name \in DOMAIN env THEN IOk(env[node.name], env, genv)
            ELSE IF node.name \in DOMAIN genv THEN IOk(genv[node.name], env, genv)
            ELSE IErr(env, genv)
      [] node.kind = "MemberExpression" ->
            LET o == InterpEvaluate(node.object, env, genv)
            IN  IF ~o.ok THEN o
                ELSE IF o.val.t \in {"null", "undef"} THEN IErr(o.env, o.genv)
                ELSE IF o.val = This
                     THEN LET p == Prop(o.env, node.property)
                          IN  IOk(IF p.t \in {"null", "undef"} THEN Null ELSE p, o.env, o.genv)
                ELSE IOk(Null, o.env, o.genv)
      [] node.kind = "AssignmentStatement" ->
            LET r  == InterpEvaluate(node.value, env, genv)
                tg == node.target
            IN  IF ~r.ok THEN r
                ELSE IF tg.kind = "Identifier" THEN
                    IF tg.name \in DOMAIN r.env
                    THEN IOk(r.val, SetProp(r.env, tg.name, r.val), r.genv)
                    ELSE IF tg.name \in DOMAIN r.genv
                    THEN IOk(r.val, r.env, SetProp(r.genv, tg.name, r.val))
                    ELSE IOk(r.val, SetProp(r.env, tg.name, r.val), r.genv)
                ELSE IF tg.kind = "MemberExpression" THEN
                    LET o == InterpEvaluate(tg.object, r.env, r.genv)
                    IN  IF ~o.ok THEN o
                        ELSE IF o.val # This THEN IErr(o.env, o.genv)
                        ELSE IOk(r.val, SetProp(o.env, tg.property, r.val), o.genv)
                ELSE r
      [] node.kind = "BinaryExpression" ->
            LET l == InterpEvaluate(node.left, env, genv)
            IN  IF ~l.ok THEN l
                ELSE LET r == InterpEvaluate(node.right, l.env, l.genv)
                     IN  IF ~r.ok THEN r
                         ELSE IOk(Primitive(OpMap(node.operator), <<l.val, r.val>>),
                                  r.env, r.genv)
      [] node.kind = "TernaryExpression" ->
            LET c == InterpEvaluate(node.condition, env, genv)
            IN  IF ~c.ok THEN c
                ELSE IF Truthy(c.val) THEN InterpEvaluate(node.consequent, c.env, c.genv)
                ELSE InterpEvaluate(node.alternate, c.env, c.genv)
      [] OTHER -> IErr(env, genv)

\* Interpreter.callFunction(name, args) on a fresh interpreter whose
\* globalEnv was loaded from the compiled environment (executeSeval);
\* the closure of a top-level function is empty
CallFunction(func, args, genv) ==
    InterpEvaluate(func.body,
                   [p \in {func.params[i] : i \in 1..Len(func.params)} |->
                       LET a == ArgAt(args, CHOOSE i \in 1..Len(func.params) :
                                              /\ func.params[i] = p
                                              /\ \A j \in 1..Len(func.params) :
                                                     func.params[j] = p => j <= i)
                       IN  IF a.t \in {"null", "undef"} THEN Null ELSE a],
                   genv)

(***************************************************************************)
(* Backend A: the structural transform (packages/seval/compiler.sexp)      *)
(***************************************************************************)
\* the operator names the self-hosted parser puts in Binary nodes
SexpOperator(operator) ==
    CASE operator = "==" -> "="
      [] operator = "&&" -> "and"
      [] operator = "||" -> "or"
      [] OTHER           -> operator

\* the name next-gensym gives the loop function of the first for statement
ForLoopName == "__for_loop1"

RECURSIVE Transform(_)

Transform(ast) ==
    CASE ast.kind = "Literal" ->
            IF ast.value.t = "str" THEN List(<<Sym("quote"), ast.value>>) ELSE ast.value
      [] ast.kind = "Identifier" -> Sym(ast.name)
      [] ast.kind = "BinaryExpression" ->
            List(<<Sym(SexpOperator(ast.operator)), Transform(ast.left), Transform(ast.right)>>)
      [] ast.kind = "MemberExpression" ->
            List(<<Sym("get"), Transform(ast.object), List(<<Sym("quote"), Sym(ast.property)>>)>>)
      [] ast.kind = "ComputedMember" ->
            List(<<Sym("get"), Transform(ast.object), Transform(ast.property)>>)
      [] ast.kind = "TernaryExpression" ->
            List(<<Sym("if"), Transform(ast.condition), Transform(ast.consequent),
                   Transform(ast.alternate)>>)
      [] ast.kind = "BlockExpression" ->
            List(<<Sym("progn")>> \o [i \in 1..Len(ast.statements) |->
                                        Transform(ast.statements[i])])
      [] ast.kind = "AssignmentStatement" ->
            IF ast.target.kind = "Identifier"
            THEN List(<<Sym("define"), Sym(ast.target.name), Transform(ast.value)>>)
            ELSE List(<<Sym("define"), Transform(ast.target.object),
                        List(<<Sym("set"), Transform(ast.target.object),
                               IF ast.target.kind = "ComputedMember"
                               THEN Transform(ast.target.property)
                               ELSE List(<<Sym("quote"), Sym(ast.target.property)>>),
                               Transform(ast.value)>>)>>)
      [] ast.kind = "UnaryExpression" ->
            IF ast.operator = "-" THEN List(<<Sym("-"), Num(0), Transform(ast.operand)>>)
            ELSE List(<<Sym(ast.operator), Transform(ast.operand)>>)
      [] ast.kind = "CallExpression" ->
            List(<<Transform(ast.callee)>> \o [i \in 1..Len(ast.args) |->
                                                 Transform(ast.args[i])])
      [] ast.kind = "ArrowFunction" ->
            List(<<Sym("lambda"), List([i \in 1..Len(ast.params) |-> Sym(ast.params[i])]),
                   Transform(ast.body)>>)
      [] ast.kind = "ObjectLiteral" ->
            \* transform-object, transform-property
            LET defines == [i \in 1..Len(ast.properties) |->
                              LET prop == ast.properties[i]
                              IN  IF prop.method
                                  THEN List(<<Sym("define"),
                                              List(<<Sym(prop.key)>> \o
                                                   [j \in 1..Len(prop.params) |->
                                                       Sym(prop.params[j])]),
                                              Transform(prop.value)>>)
                                  ELSE List(<<Sym("define"), Sym(prop.key),
                                              Transform(prop.value)>>)]
            IN  IF Len(defines) = 1 THEN defines[1] ELSE List(<<Sym("progn")>> \o defines)
      [] ast.kind = "ForStatement" ->
            \* transform-for-statement
            List(<<Sym("progn"),
                   Transform(ast.init),
                   List(<<Sym("define"), List(<<Sym(ForLoopName)>>),
                          List(<<Sym("if"), Transform(ast.test),
                                 List(<<Sym("progn"), Transform(ast.body),
                                        Transform(ast.update),
                                        List(<<Sym(ForLoopName)>>)>>),
                                 Null>>)>>),
                   List(<<Sym(ForLoopName)>>)>>)
      [] OTHER -> Null

\* transform-property of a method: (define (name params...) body)
TransformMethod(name, func) ==
    List(<<Sym("define"),
           List(<<Sym(name)>> \o [i \in 1..Len(func.params) |-> Sym(func.params[i])]),
           Transform(func.body)>>)

(***************************************************************************)
(* The self-hosted parser (packages/seval/compiler.sexp), which the        *)
(* expression evaluator runs to build the tree that transform lowers.      *)
(*                                                                         *)
(* A token is [type, value]; positions count from 1.  A parse function     *)
(* returns [node, pos, diverges]: the parser throws nothing, but its       *)
(* statement loop makes no progress on a token that starts no expression   *)
(* and then recurses without end (diverges = TRUE), which the evaluator's  *)
(* depth guard or the host's call stack ends with an error.  Array         *)
(* literals, computed members and if statements are not among the inputs   *)
(* and are left out.                                                       *)
(***************************************************************************)
Tok(type, value) == [type |-> type, value |-> value]

\* (nth tokens pos), null past the end
CurrentToken(tokens, pos) == IF pos \in 1..Len(tokens) THEN tokens[pos] ELSE Tok("", Null)

TokenTypeAt(tokens, pos) == CurrentToken(tokens, pos).type

Parsed(node, pos) == [node |-> node, pos |-> pos, diverges |-> FALSE]

Diverged(pos) == [node |-> Literal(Null), pos |-> pos, diverges |-> TRUE]

\* body applied to a parse result, unless that parse never returned
AndThen(result, body(_)) == Bind(result, LAMBDA r : IF r.diverges THEN r ELSE body(r))

AssignmentTarget(node) == node.kind \in {"Identifier", "MemberExpression"}

\* the token types and operator names of parse-or (1) to parse-multiplicative (6)
SexpBinaryOps(level) ==
    CASE level = 1 -> ("Or" :> "or")
      [] level = 2 -> ("And" :> "and")
      [] level = 3 -> ("Equal" :> "=") @@ ("NotEqual" :> "!=")
      [] level = 4 -> ("Less" :> "<") @@ ("Greater" :> ">") @@ ("LessEqual" :> "<=")
                          @@ ("GreaterEqual" :> ">=")
      [] level = 5 -> ("Plus" :> "+") @@ ("Minus" :> "-")
      [] level = 6 -> ("Star" :> "*") @@ ("Slash" :> "/") @@ ("Percent" :> "%")

RECURSIVE SexpParseAssignment(_, _), SexpParseTernary(_, _), SexpParseBinary(_, _, _),
          SexpParseBinaryLoop(_, _, _), SexpParseOperand(_, _, _), SexpParseUnary(_, _),
          SexpParsePostfixLoop(_, _), SexpParseArgs(_, _), SexpParseArgsLoop(_, _, _),
          SexpParsePrimary(_, _), SexpParseParen(_, _), SexpParseArrowParams(_, _, _),
          SexpParseObject(_, _), SexpParseObjectLoop(_, _, _), SexpParseProperty(_, _),
          SexpParseMethodParamsLoop(_, _, _), SexpParseStatements(_, _, _),
          SexpParseStatement(_, _), SexpParseForStatement(_, _),
          SexpParseForSegment(_, _, _, _)

\* parse-expr
SexpParseExpr(tokens, pos) == SexpParseAssignment(tokens, pos)

\* parse-assignment: a left side that is no assignment target is returned
\* as it is, the `=` left where it stands
SexpParseAssignment(tokens, pos) ==
    AndThen(SexpParseTernary(tokens, pos), LAMBDA left :
        IF /\ left.pos <= Len(tokens)
           /\ CurrentToken(tokens, left.pos).value = Sym("=")
           /\ \/ left.pos + 1 > Len(tokens)
              \/ CurrentToken(tokens, left.pos + 1).value # Sym("=")
           /\ AssignmentTarget(left.node)
        THEN AndThen(SexpParseAssignment(tokens, left.pos + 1), LAMBDA value :
                 Parsed(AssignmentStatement(left.node, value.node), value.pos))
        ELSE left)

SexpParseTernary(tokens, pos) ==
    AndThen(SexpParseBinary(tokens, pos, 1), LAMBDA left :
        IF TokenTypeAt(tokens, left.pos) # "Question" THEN left
        ELSE AndThen(SexpParseExpr(tokens, left.pos + 1), LAMBDA conseq :
                 IF TokenTypeAt(tokens, conseq.pos) # "Colon" THEN left
                 ELSE AndThen(SexpParseExpr(tokens, conseq.pos + 1), LAMBDA alt :
                          Parsed(TernaryExpression(left.node, conseq.node, alt.node),
                                 alt.pos))))

\* next-fn of a binary level
SexpParseOperand(tokens, pos, level) ==
    IF level < 6 THEN SexpParseBinary(tokens, pos, level + 1) ELSE SexpParseUnary(tokens, pos)

\* parse-binary-left
SexpParseBinary(tokens, pos, level) ==
    AndThen(SexpParseOperand(tokens, pos, level), LAMBDA left :
        SexpParseBinaryLoop(tokens, left, level))

\* parse-binary-loop
SexpParseBinaryLoop(tokens, result, level) ==
    IF TokenTypeAt(tokens, result.pos) \notin DOMAIN SexpBinaryOps(level) THEN result
    ELSE AndThen(SexpParseOperand(tokens, result.pos + 1, level), LAMBDA right :
             SexpParseBinaryLoop(tokens,
                 Parsed(BinaryExpression(SexpBinaryOps(level)[TokenTypeAt(tokens, result.pos)],
                                         result.node, right.node), right.pos),
                 level))

SexpParseUnary(tokens, pos) ==
    IF TokenTypeAt(tokens, pos) \in {"Not", "Minus"}
    THEN AndThen(SexpParseUnary(tokens, pos + 1), LAMBDA arg :
             Parsed(UnaryExpression(IF TokenTypeAt(tokens, pos) = "Not" THEN "not" ELSE "-",
                                    arg.node), arg.pos))
    ELSE AndThen(SexpParsePrimary(tokens, pos), LAMBDA primary :
             SexpParsePostfixLoop(tokens, primary))

\* parse-postfix-loop
SexpParsePostfixLoop(tokens, result) ==
    IF TokenTypeAt(tokens, result.pos) = "Dot"
    THEN SexpParsePostfixLoop(tokens,
             Parsed(MemberExpression(result.node,
                                     CurrentToken(tokens, result.pos + 1).value.v),
                    result.pos + 2))
    ELSE IF TokenTypeAt(tokens, result.pos) = "LeftParen"
    THEN AndThen(SexpParseArgs(tokens, result.pos + 1), LAMBDA args :
             SexpParsePostfixLoop(tokens,
                 Parsed(CallExpression(result.node, args.node), args.pos)))
    ELSE result

\* parse-args: node is the sequence of argument nodes
SexpParseArgs(tokens, pos) ==
    IF TokenTypeAt(tokens, pos) = "RightParen" THEN Parsed(<<>>, pos + 1)
    ELSE AndThen(SexpParseExpr(tokens, pos), LAMBDA first :
             SexpParseArgsLoop(tokens, first.pos, <<first.node>>))

SexpParseArgsLoop(tokens, pos, args) ==
    IF TokenTypeAt(tokens, pos) # "Comma" THEN Parsed(args, pos + 1)
    ELSE AndThen(SexpParseExpr(tokens, pos + 1), LAMBDA arg :
             SexpParseArgsLoop(tokens, arg.pos, Append(args, arg.node)))

\* parse-primary: a token that starts no expression yields a null literal
\* and is not consumed
SexpParsePrimary(tokens, pos) ==
    CASE TokenTypeAt(tokens, pos) \in {"Number", "String", "Boolean"} ->
            Parsed(Literal(CurrentToken(tokens, pos).value), pos + 1)
      [] TokenTypeAt(tokens, pos) = "Null" -> Parsed(Literal(Null), pos + 1)
      [] TokenTypeAt(tokens, pos) = "Identifier" ->
            IF TokenTypeAt(tokens, pos + 1) = "Arrow"
            THEN AndThen(SexpParseExpr(tokens, pos + 2), LAMBDA body :
                     Parsed(ArrowFunction(<<CurrentToken(tokens, pos).value.v>>, body.node),
                            body.pos))
            ELSE Parsed(Identifier(CurrentToken(tokens, pos).value.v), pos + 1)
      [] TokenTypeAt(tokens, pos) = "LeftParen" -> SexpParseParen(tokens, pos + 1)
      [] TokenTypeAt(tokens, pos) = "LeftBrace" -> SexpParseObject(tokens, pos + 1)
      [] TokenTypeAt(tokens, pos) \notin {"Number", "String", "Boolean", "Null", "Identifier",
                                          "LeftParen", "LeftBrace", "LeftBracket"} ->
            Parsed(Literal(Null), pos)

\* parse-paren, after the opening parenthesis
SexpParseParen(tokens, pos) ==
    IF TokenTypeAt(tokens, pos) = "RightParen"
    THEN IF TokenTypeAt(tokens, pos + 1) = "Arrow"
         THEN AndThen(SexpParseExpr(tokens, pos + 2), LAMBDA body :
                  Parsed(ArrowFunction(<<>>, body.node), body.pos))
         ELSE Parsed(Literal(Null), pos + 1)
    ELSE AndThen(SexpParseExpr(tokens, pos), LAMBDA first :
             IF TokenTypeAt(tokens, first.pos) = "Comma" /\ first.node.kind = "Identifier"
             THEN SexpParseArrowParams(tokens, first.pos, <<first.node.name>>)
             ELSE IF TokenTypeAt(tokens, first.pos) = "RightParen"
             THEN IF /\ TokenTypeAt(tokens, first.pos + 1) = "Arrow"
                     /\ first.node.kind = "Identifier"
                  THEN AndThen(SexpParseExpr(tokens, first.pos + 2), LAMBDA body :
                           Parsed(ArrowFunction(<<first.node.name>>, body.node), body.pos))
                  ELSE Parsed(first.node, first.pos + 1)
             ELSE first)

\* parse-arrow-params: the value of whatever token follows a comma is taken
\* as a parameter name
SexpParseArrowParams(tokens, pos, params) ==
    IF TokenTypeAt(tokens, pos) = "Comma"
    THEN SexpParseArrowParams(tokens, pos + 2,
                              Append(params, CurrentToken(tokens, pos + 1).value.v))
    ELSE IF TokenTypeAt(tokens, pos + 1) = "Arrow"
    THEN AndThen(SexpParseExpr(tokens, pos + 2), LAMBDA body :
             Parsed(ArrowFunction(params, body.node), body.pos))
    ELSE Parsed(Literal(Null), pos)

\* parse-object, after the opening brace
SexpParseObject(tokens, pos) ==
    IF TokenTypeAt(tokens, pos) = "RightBrace" THEN Parsed(ObjectLiteral(<<>>), pos + 1)
    ELSE AndThen(SexpParseProperty(tokens, pos), LAMBDA prop :
             SexpParseObjectLoop(tokens, prop.pos, <<prop.node>>))

SexpParseObjectLoop(tokens, pos, props) ==
    IF TokenTypeAt(tokens, pos) = "RightBrace" THEN Parsed(ObjectLiteral(props), pos + 1)
    ELSE IF TokenTypeAt(tokens, pos) = "Comma"
    THEN AndThen(SexpParseProperty(tokens, pos + 1), LAMBDA prop :
             SexpParseObjectLoop(tokens, prop.pos, Append(props, prop.node)))
    ELSE Parsed(ObjectLiteral(props), pos)

\* parse-method-params-loop, after the first parameter
SexpParseMethodParamsLoop(tokens, pos, params) ==
    IF TokenTypeAt(tokens, pos) # "Comma" THEN Parsed(params, pos + 1)
    ELSE IF TokenTypeAt(tokens, pos + 1) = "Identifier"
    THEN SexpParseMethodParamsLoop(tokens, pos + 2,
                                   Append(params, CurrentToken(tokens, pos + 1).value.v))
    ELSE Parsed(params, pos)

\* parse-method-params, after the opening parenthesis
SexpParseMethodParams(tokens, pos) ==
    IF TokenTypeAt(tokens, pos) = "RightParen" THEN Parsed(<<>>, pos + 1)
    ELSE IF TokenTypeAt(tokens, pos) = "Identifier"
    THEN SexpParseMethodParamsLoop(tokens, pos + 1, <<CurrentToken(tokens, pos).value.v>>)
    ELSE Parsed(<<>>, pos)

\* parse-property
SexpParseProperty(tokens, pos) ==
    IF TokenTypeAt(tokens, pos) # "Identifier"
    THEN Parsed(Property("", Literal(Null), FALSE, <<>>), pos)
    ELSE IF TokenTypeAt(tokens, pos + 1) = "LeftParen"
    THEN Bind(SexpParseMethodParams(tokens, pos + 2), LAMBDA params :
             IF TokenTypeAt(tokens, params.pos) # "LeftBrace"
             THEN Parsed(Property(CurrentToken(tokens, pos).value.v, Literal(Null), TRUE,
                                  params.node), params.pos)
             ELSE AndThen(SexpParseStatements(tokens, params.pos + 1, <<>>), LAMBDA body :
                      Parsed(Property(CurrentToken(tokens, pos).value.v, body.node, TRUE,
                                      params.node), body.pos)))
    ELSE IF TokenTypeAt(tokens, pos + 1) = "Colon"
    THEN AndThen(SexpParseExpr(tokens, pos + 2), LAMBDA value :
             Parsed(Property(CurrentToken(tokens, pos).value.v, value.node, FALSE, <<>>),
                    value.pos))
    ELSE Parsed(Property(CurrentToken(tokens, pos).value.v, Literal(Null), FALSE, <<>>),
                pos + 1)

\* parse-statements (parse-method-body starts it with no statements): a
\* statement that consumed no token is followed by the same call again
SexpParseStatements(tokens, pos, stmts) ==
    IF TokenTypeAt(tokens, pos) \in {"RightBrace", "EOF"}
    THEN Parsed(IF Len(stmts) = 0 THEN Literal(Null)
                ELSE IF Len(stmts) = 1 THEN stmts[1]
                ELSE BlockExpression(stmts),
                IF TokenTypeAt(tokens, pos) = "RightBrace" THEN pos + 1 ELSE pos)
    ELSE AndThen(SexpParseStatement(tokens, pos), LAMBDA stmt :
             IF stmt.pos = pos THEN Diverged(pos)
             ELSE SexpParseStatements(tokens, stmt.pos, Append(stmts, stmt.node)))

\* parse-statement
SexpParseStatement(tokens, pos) ==
    IF TokenTypeAt(tokens, pos) = "For" THEN SexpParseForStatement(tokens, pos)
    ELSE SexpParseExpr(tokens, pos)

\* parse-for-statement: `for` not followed by a parenthesis is a null literal
SexpParseForStatement(tokens, pos) ==
    IF TokenTypeAt(tokens, pos + 1) # "LeftParen" THEN Parsed(Literal(Null), pos + 1)
    ELSE
    AndThen(SexpParseForSegment(tokens, pos + 2, "Semicolon", Literal(Null)), LAMBDA init :
    AndThen(SexpParseForSegment(tokens, init.pos, "Semicolon", Literal(Bool(TRUE))),
            LAMBDA test :
    AndThen(SexpParseForSegment(tokens, test.pos, "RightParen", Literal(Null)),
            LAMBDA update :
        IF TokenTypeAt(tokens, update.pos) # "LeftBrace"
        THEN Parsed(Literal(Null), update.pos)
        ELSE AndThen(SexpParseStatements(tokens, update.pos + 1, <<>>), LAMBDA body :
                 Parsed(ForStatement(init.node, test.node, update.node, body.node),
                        body.pos)))))

\* parse-for-segment
SexpParseForSegment(tokens, pos, stopType, defaultValue) ==
    IF TokenTypeAt(tokens, pos) = stopType THEN Parsed(defaultValue, pos + 1)
    ELSE AndThen(SexpParseExpr(tokens, pos), LAMBDA expr :
             IF TokenTypeAt(tokens, expr.pos) = stopType
             THEN Parsed(expr.node, expr.pos + 1)
             ELSE expr)

\* (parse src): the first expression of the token sequence
SexpParse(tokens) == SexpParseExpr(tokens, 1)

(***************************************************************************)
(* Specification SpecObj: one program, compiled once, whose methods are    *)
(* then called any number of times.                                        *)
(*                                                                         *)
(*   { x: 1,                                                               *)
(*     setX(v) { this.x = v }     getX() { this.x }                        *)
(*     setTmp(v) { tmp = v }      getTmp() { tmp } }                       *)
(*                                                                         *)
(* path is "native" (compileSeval and executeSeval of the native build),   *)
(* "interp" (those of the Interpreter build) or "sexp" (the transform run  *)
(* by the expression evaluator, whose root frame is frames[1]).            *)
(***************************************************************************)
MaxCallFrames == 4

InitX == Num(1)

ArgValues == {Num(5), Num(7)}

Methods ==
    [setX   |-> [params |-> <<"v">>,
                 body |-> AssignmentStatement(MemberExpression(Identifier("this"), "x"),
                                              Identifier("v"))],
     getX   |-> [params |-> <<>>, body |-> MemberExpression(Identifier("this"), "x")],
     setTmp |-> [params |-> <<"v">>,
                 body |-> AssignmentStatement(Identifier("tmp"), Identifier("v"))],
     getTmp |-> [params |-> <<>>, body |-> Identifier("tmp")]]

\* the arguments a call passes: one for each parameter
ArgsFor(name, arg) == IF Methods[name].params = <<>> THEN <<>> ELSE <<arg>>

\* the program loaded into a fresh root frame by the expression evaluator
LoadSexp ==
    EvaluateRoot(List(<<Sym("progn"),
                        TransformMethod("setTmp", Methods["setTmp"]),
                        TransformMethod("getTmp", Methods["getTmp"])>>),
                 DefaultMaxDepth).st.frames

InitObj ==
    /\ path \in {"native", "interp", "sexp"}
    /\ cenv = IF path = "sexp" THEN <<>> ELSE ("x" :> InitX)
    /\ frames = IF path = "sexp" THEN LoadSexp ELSE <<>>
    /\ objHist = [op |-> "none", ok |-> TRUE, val |-> Undef, lastX |-> InitX, tmpVals |-> {}]
    /\ stack = <<>>
    /\ lastDef = NoDef
    /\ evRun = NoRun
    /\ opRun = NoRun
    /\ parseRun = NoRun
    /\ calc = <<>>
    /\ calcTrace = <<>>
    /\ loopRun = NoRun
    /\ rt = NoRun
    /\ tokRun = NoRun

Recorded(name, arg, ok, val) ==
    [op |-> name, ok |-> ok, val |-> val,
     lastX |-> IF name = "setX" /\ ok THEN arg ELSE objHist.lastX,
     tmpVals |-> IF name = "setTmp" /\ ok THEN objHist.tmpVals \cup {arg} ELSE objHist.tmpVals]

\* executeSeval(env, name, args) of the native build: func.apply(env, args)
ExecuteNative(name, arg) ==
    LET r == CompileFunction(Methods[name], cenv, ArgsFor(name, arg))
    IN  /\ path = "native"
        /\ cenv' = r.th
        /\ objHist' = Recorded(name, arg, r.ok, r.val)
        /\ UNCHANGED <<frames, stack, lastDef, evRun, path, opRun, parseRun, calc, calcTrace,
                     bridgeVars>>

\* executeSeval(env, name, args) of the Interpreter build: a new Interpreter
\* with a globalEnv copied from env, then callFunction
ExecuteInterp(name, arg) ==
    LET r == CallFunction(Methods[name], ArgsFor(name, arg), cenv)
    IN  /\ path = "interp"
        /\ objHist' = Recorded(name, arg, r.ok, r.val)
        /\ UNCHANGED <<frames, stack, lastDef, evRun, path, cenv, opRun, parseRun, calc, calcTrace,
                     bridgeVars>>

\* evaluate((name args...), env) by the expression evaluator
ExecuteSexp(name, arg) ==
    LET r == EvalExpr(List(<<Sym(name)>> \o ArgsFor(name, arg)), 1, 0,
                      [frames |-> frames, maxDepth |-> DefaultMaxDepth, mdr |-> 0])
    IN  /\ path = "sexp"
        /\ Len(frames) < MaxCallFrames
        /\ frames' = r.st.frames
        /\ objHist' = Recorded(name, arg, r.ok, r.val)
        /\ UNCHANGED <<stack, lastDef, evRun, path, cenv, opRun, parseRun, calc, calcTrace,
                     bridgeVars>>

NextObj ==
    \/ \E name \in DOMAIN Methods, arg \in ArgValues : ExecuteNative(name, arg)
    \/ \E name \in DOMAIN Methods, arg \in ArgValues : ExecuteInterp(name, arg)
    \/ \E name \in {"setTmp", "getTmp"}, arg \in ArgValues : ExecuteSexp(name, arg)

SpecObj == InitObj /\ [][NextObj]_vars

\* C2: an assignment to a name bound nowhere leaves the name local to the
\* call that made it: the compiled environment that the methods share and
\* the root frame gain no binding for it, and no later call reads a value an
\* earlier call assigned to it.
C2_UnboundAssignmentIsLocal ==
    /\ "tmp" \notin DOMAIN cenv
    /\ path = "sexp" => "tmp" \notin DOMAIN frames[1].b
    /\ (objHist.op = "getTmp" /\ objHist.ok) => objHist.val \notin objHist.tmpVals

\* C3: a call of getX returns the value most recently assigned to this.x by
\* an earlier call, or the declared initial value when there was none.
C3_ThisPersistsAcrossCalls ==
    objHist.op = "getX" => (objHist.ok /\ objHist.val = objHist.lastX)

(***************************************************************************)
(* Specification SpecOps: one entry point f(a, b) { body }, lowered by     *)
(* both backends and invoked with the same arguments.                      *)
(***************************************************************************)
OperandValues ==
    {Num(0), Num(1), Str(<<"1">>), Str(<<>>), Null, Undef, Bool(TRUE), Bool(FALSE)}

A == Identifier("a")

B == Identifier("b")

\* the bodies of the entry point, by name
Bodies ==
    [eq     |-> BinaryExpression("==", A, B),
     ne     |-> BinaryExpression("!=", A, B),
     and    |-> BinaryExpression("&&", A, B),
     or     |-> BinaryExpression("||", A, B),
     add    |-> BinaryExpression("+", A, B),
     sub    |-> BinaryExpression("-", A, B),
     mul    |-> BinaryExpression("*", A, B),
     lt     |-> BinaryExpression("<", A, B),
     tern   |-> TernaryExpression(BinaryExpression("==", A, B),
                                  Literal(Num(1)), Literal(Num(2))),
     assign |-> BlockExpression(<<AssignmentStatement(Identifier("t"),
                                                      BinaryExpression("+", A, B)),
                                  Identifier("t")>>)]

EntryPoint(prog) == [params |-> <<"a", "b">>, body |-> Bodies[prog]]

\* Backend A: the transformed program loaded into a fresh environment, then
\* (f a b) evaluated in it; the final state is the environment without f
RunBackendA(prog, a, b) ==
    LET loaded == EvaluateRoot(TransformMethod("f", EntryPoint(prog)), DefaultMaxDepth).st
        r      == EvalExpr(List(<<Sym("f"), a, b>>), 1, 0, loaded)
        root   == r.st.frames[1].b
    IN  [ok |-> r.ok, val |-> r.val,
         state |-> [n \in DOMAIN root \ {"f"} |-> root[n]]]

\* Backend B: the compiled environment, then executeSeval(env, 'f', [a, b]);
\* the final state is the data members of the environment
RunBackendB(prog, a, b) ==
    LET r == CompileFunction(EntryPoint(prog), <<>>, <<a, b>>)
    IN  [ok |-> r.ok, val |-> r.val, state |-> r.th]

InitOps ==
    /\ opRun = NoRun
    /\ parseRun = NoRun
    /\ calc = <<>>
    /\ calcTrace = <<>>
    /\ loopRun = NoRun
    /\ rt = NoRun
    /\ tokRun = NoRun
    /\ frames = <<>>
    /\ stack = <<>>
    /\ lastDef = NoDef
    /\ evRun = NoRun
    /\ path = "none"
    /\ cenv = <<>>
    /\ objHist = NoRun

\* an argument the host leaves undefined cannot be written in a list
\* expression, so such a call reaches Backend B only
Invoke(prog, a, b) ==
    /\ opRun' = [prog |-> prog, a |-> a, b |-> b,
                 both |-> Undef \notin {a, b},
                 resA |-> IF Undef \in {a, b} THEN NoRun ELSE RunBackendA(prog, a, b),
                 resB |-> RunBackendB(prog, a, b)]
    /\ UNCHANGED <<frames, stack, lastDef, evRun, path, cenv, objHist, parseRun, calc, calcTrace,
                     bridgeVars>>

NextOps == \E prog \in DOMAIN Bodies, a \in OperandValues, b \in OperandValues :
               Invoke(prog, a, b)

SpecOps == InitOps /\ [][NextOps]_vars

\* C7: under both backends, for operands of different types a == b is false
\* and a != b is true.
C7_EqualityIsStrict ==
    (opRun # NoRun /\ opRun.prog \in {"eq", "ne"} /\ opRun.a.t # opRun.b.t) =>
        /\ opRun.resB.val = Bool(opRun.prog = "ne")
        /\ opRun.both => opRun.resA.val = Bool(opRun.prog = "ne")

\* C8: under both backends a && b and a || b evaluate to a boolean.
C8_LogicalOpsReturnBooleans ==
    (opRun # NoRun /\ opRun.prog \in {"and", "or"}) =>
        /\ opRun.resB.val.t = "bool"
        /\ opRun.both => opRun.resA.val.t = "bool"

\* C9: invoked with the same arguments, the entry point yields the same
\* result and the same final state through Backend A and through Backend B.
C9_BackendsAgree ==
    (opRun # NoRun /\ opRun.both) => opRun.resA = opRun.resB

(***************************************************************************)
(* The surface-language parser (Parser of seval-parser.ts).                *)
(*                                                                         *)
(* A token is its TokenType.  The parser is a recursive-descent parser;    *)
(* its host call stack is the field stk of the state, one frame            *)
(* [fn, at, x] for every parse function in progress: fn is the function,   *)
(* at the point where it resumes when its callee returns (0: not yet       *)
(* entered), x its local (the precedence level of a binary parse function, *)
(* the number of statements of a function body).  pos is the index of the  *)
(* next token (from 1), depth the parser's depth field, kind the kind of   *)
(* the node returned last, err the message of the error thrown ("" while   *)
(* none was; a throw unwinds the whole stack, nothing catches it), arrows  *)
(* the ArrowFunction nodes returned so far, each [at, params]: the         *)
(* position where it starts and the positions of its parameter tokens.     *)
(* active, maxpe and maxstk are bookkeeping: the number of parseExpression *)
(* frames on the stack, the largest value it had, and the largest height   *)
(* of the stack.  One step runs the frame on top up to its next call,      *)
(* return or throw.                                                        *)
(***************************************************************************)
ParserMaxDepth == 50

ParserDepthError == "Maximum parser depth exceeded"

RECURSIVE SkipNewlines(_, _)
SkipNewlines(ts, pos) ==
    IF pos <= Len(ts) /\ ts[pos] = "NEWLINE" THEN SkipNewlines(ts, pos + 1) ELSE pos

TokenAt(ts, pos) == IF pos <= Len(ts) THEN ts[pos] ELSE ts[Len(ts)]

\* peek(): the type of the next significant token
Peek(s) == TokenAt(s.tokens, SkipNewlines(s.tokens, s.pos))

\* peek(false)
PeekRaw(s) == TokenAt(s.tokens, s.pos)

\* advance(): past the token at pos and the newlines that follow it
Advance(s) == [s EXCEPT !.pos = SkipNewlines(s.tokens, s.pos + 1)]

\* if (this.peek().type === type) this.advance()
AdvanceIf(s, type) == IF Peek(s) = type THEN Advance(s) ELSE s

Throw(s, msg) == [s EXCEPT !.err = msg, !.stk = <<>>, !.active = 0]

Expect(s, type) ==
    IF Peek(s) # type THEN Throw(s, "Expected " \o type) ELSE Advance(s)

\* b unless a has thrown
Try(a, b) == IF a.err # "" THEN a ELSE b

CheckDepth(s) ==
    LET t == [s EXCEPT !.depth = @ + 1]
    IN  IF t.depth > ParserMaxDepth THEN Throw(t, ParserDepthError) ELSE t

RestoreDepthNever(depth) == depth

\* this.depth-- on the normal exit of parseExpression
RestoreDepth(depth) == depth - 1

Frame(s) == s.stk[Len(s.stk)]

\* the frame on top calls fn and will resume at `at`
Call(s, at, fn, x) ==
    LET n == IF fn = "parseExpression" THEN s.active + 1 ELSE s.active
        h == Len(s.stk) + 1
    IN  [s EXCEPT !.stk = Append([@ EXCEPT ![Len(@)].at = at],
                                 [fn |-> fn, at |-> 0, x |-> x]),
                  !.active = n,
                  !.maxpe = IF n > @ THEN n ELSE @,
                  !.maxstk = IF h > @ THEN h ELSE @]

\* the frame on top returns a node of the kind
Ret(s, kind) ==
    [s EXCEPT !.stk = SubSeq(@, 1, Len(@) - 1),
              !.kind = kind,
              !.active = IF Frame(s).fn = "parseExpression" THEN @ - 1 ELSE @]

\* the operator tokens of parseLogicalOr (1) down to parseMultiplicative (6)
BinaryOps(level) ==
    CASE level = 1 -> {"OR"}
      [] level = 2 -> {"AND"}
      [] level = 3 -> {"EQ", "NE"}
      [] level = 4 -> {"LT", "LE", "GT", "GE"}
      [] level = 5 -> {"PLUS", "MINUS"}
      [] level = 6 -> {"STAR", "SLASH", "PERCENT"}

RestorePosLost(s, savedPos) == s

\* this.pos = savedPos
RestorePos(s, savedPos) == [s EXCEPT !.pos = savedPos]

RECURSIVE CollectParams(_, _)
\* while (peek is COMMA) { advance; if (peek is IDENTIFIER) params.push(advance) },
\* a parameter being the position of its token
CollectParams(s, params) ==
    IF Peek(s) # "COMMA" THEN [s |-> s, params |-> params]
    ELSE IF Peek(Advance(s)) = "IDENTIFIER"
    THEN CollectParams(Advance(Advance(s)), Append(params, Advance(s).pos))
    ELSE CollectParams(Advance(s), params)

\* the speculation `identifier =>` of parseAssignment from an IDENTIFIER:
\* [arrow, s, params], s being the state after the ARROW when arrow is TRUE
\* and the state after the restore when it is not
IdentArrow(s) ==
    LET savedPos == s.pos
        ident    == Advance(s)
    IN  IF Peek(ident) = "ARROW"
        THEN [arrow |-> TRUE, s |-> Advance(ident),
              params |-> <<SkipNewlines(s.tokens, s.pos)>>]
        ELSE [arrow |-> FALSE, s |-> RestorePos(ident, savedPos), params |-> <<>>]

\* the speculation `(params) =>` of parseAssignment and of parsePrimary from
\* a LPAREN
ParenArrow(s) ==
    LET parenPos == s.pos
        open     == Advance(s)
        list     == IF Peek(open) = "RPAREN"
                    THEN [s |-> Advance(open), params |-> <<>>, closed |-> TRUE]
                    ELSE IF Peek(open) = "IDENTIFIER"
                    THEN LET rest == CollectParams(Advance(open), <<open.pos>>)
                         IN  IF Peek(rest.s) = "RPAREN"
                             THEN [s |-> Advance(rest.s), params |-> rest.params,
                                   closed |-> TRUE]
                             ELSE [s |-> rest.s, params |-> rest.params, closed |-> FALSE]
                    ELSE [s |-> open, params |-> <<>>, closed |-> FALSE]
    IN  IF list.closed /\ Peek(list.s) = "ARROW"
        THEN [arrow |-> TRUE, s |-> Advance(list.s), params |-> list.params]
        ELSE [arrow |-> FALSE, s |-> RestorePos(list.s, parenPos), params |-> <<>>]

\* the frame on top commits to an arrow function that starts at the cursor
\* of s and has the parameters: they are its local until the body is parsed
Commit(s, found) ==
    [found.s EXCEPT !.stk[Len(s.stk)].x = [at |-> s.pos, params |-> found.params]]

\* the frame on top returns the arrow function it committed to
RetArrow(s) == Ret([s EXCEPT !.arrows = Append(@, Frame(s).x)], "ArrowFunction")

RECURSIVE ParseParams(_)
\* while (peek is not RPAREN) { expect IDENTIFIER; skip one COMMA }
ParseParams(s) ==
    IF Peek(s) = "RPAREN" THEN s
    ELSE LET param == Expect(s, "IDENTIFIER")
         IN  Try(param, ParseParams(AdvanceIf(param, "COMMA")))

\* the member loop of parseProgram, from its test
Members(s) ==
    IF Peek(s) \in {"RBRACE", "EOF"}
    THEN LET close == Expect(s, "RBRACE") IN Try(close, Ret(close, "Program"))
    ELSE LET name == Expect(s, "IDENTIFIER")
         IN  IF name.err # "" THEN name
             ELSE IF Peek(name) = "COLON"
             THEN Call(Advance(name), 1, "parseExpression", 0)
             ELSE IF Peek(name) = "LPAREN"
             THEN LET params == ParseParams(Advance(name))
                      close  == Expect(params, "RPAREN")
                  IN  IF params.err # "" THEN params
                      ELSE Try(close, Call(close, 1, "parseFunctionBody", 0))
             ELSE Throw(name, "Expected ':' or '('")

RECURSIVE SkipSeparators(_)
\* while (peek(false) is NEWLINE or SEMICOLON) advance(false)
SkipSeparators(s) ==
    IF PeekRaw(s) \in {"NEWLINE", "SEMICOLON"} /\ s.pos <= Len(s.tokens)
    THEN SkipSeparators([s EXCEPT !.pos = @ + 1])
    ELSE s

\* the statement loop of parseFunctionBody, from its test; starts keeps the
\* position at which each statements.push(this.parseStatement()) begins
Statements(s) ==
    IF PeekRaw(s) \in {"RBRACE", "EOF"}
    THEN LET close == Expect(s, "RBRACE")
         IN  Try(close, Ret(close, IF Frame(s).x = 1 THEN s.kind ELSE "BlockExpression"))
    ELSE Call([s EXCEPT !.starts = Append(@, s.pos)], 1, "parseStatement", 0)

RECURSIVE PostfixLoop(_), Arguments(_)
\* the while (true) of parsePostfix, s.kind being the kind of expr
PostfixLoop(s) ==
    IF Peek(s) = "LPAREN" THEN Arguments(Advance(s))
    ELSE IF Peek(s) = "DOT"
    THEN LET prop == Expect(Advance(s), "IDENTIFIER")
         IN  Try(prop, PostfixLoop([prop EXCEPT !.kind = "MemberExpression"]))
    ELSE IF Peek(s) = "LBRACKET" THEN Call(Advance(s), 3, "parseExpression", 0)
    ELSE Ret(s, s.kind)

\* the argument loop of a call, from its test; expect(RPAREN) then succeeds
Arguments(s) ==
    IF Peek(s) # "RPAREN" THEN Call(s, 2, "parseExpression", 0)
    ELSE PostfixLoop([Advance(s) EXCEPT !.kind = "CallExpression"])

\* the element loop of an array literal, from its test
Elements(s) ==
    IF Peek(s) # "RBRACKET" THEN Call(s, 1, "parseExpression", 0)
    ELSE Ret(Advance(s), "ArrayLiteral")

\* the property loop of an object literal, from its test
Properties(s) ==
    IF Peek(s) \in {"RBRACE", "EOF"}
    THEN LET close == Expect(s, "RBRACE") IN Try(close, Ret(close, "ObjectLiteral"))
    ELSE LET key   == Expect(s, "IDENTIFIER")
             colon == Expect(key, "COLON")
         IN  IF key.err # "" THEN key
             ELSE Try(colon, Call(colon, 4, "parseExpression", 0))

LiteralKind(token) ==
    CASE token = "NUMBER" -> "NumberLiteral"
      [] token = "STRING" -> "StringLiteral"
      [] token \in {"TRUE", "FALSE"} -> "BooleanLiteral"
      [] token = "NULL" -> "NullLiteral"

\* new Parser(tokens), parseProgram about to run
NewParser(shape, k, tokens) ==
    [shape |-> shape, k |-> k, tokens |-> tokens, pos |-> 1, depth |-> 0,
     kind |-> "", err |-> "", arrows |-> <<>>, starts |-> <<>>, active |-> 0, maxpe |-> 0, maxstk |-> 1,
     stk |-> <<[fn |-> "parseProgram", at |-> 0, x |-> 0]>>]

\* the parse function fn is on top of the stack and runs to `next`
Step(fn, next) ==
    /\ parseRun # NoRun
    /\ parseRun.stk # <<>>
    /\ Frame(parseRun).fn = fn
    /\ parseRun' = next
    /\ UNCHANGED <<evalVars, objVars, opRun, calcVars, bridgeVars>>

ParseProgram ==
    Step("parseProgram",
         IF Frame(parseRun).at = 0
         THEN LET open == Expect(parseRun, "LBRACE") IN Try(open, Members(open))
         ELSE Members(AdvanceIf(parseRun, "COMMA")))

ParseFunctionBody ==
    Step("parseFunctionBody",
         IF Frame(parseRun).at = 0
         THEN LET open == Expect(parseRun, "LBRACE")
              IN  Try(open, Statements(SkipSeparators(open)))
         ELSE Statements(SkipSeparators(
                  [parseRun EXCEPT !.stk[Len(parseRun.stk)].x = @ + 1])))

ParseStatement ==
    Step("parseStatement",
         IF Frame(parseRun).at = 0
         THEN IF Peek(parseRun) = "IF" THEN Call(parseRun, 1, "parseIfStatement", 0)
              ELSE Call(parseRun, 1, "parseAssignment", 0)
         ELSE Ret(parseRun, parseRun.kind))

ParseIfStatement ==
    Step("parseIfStatement",
         CASE Frame(parseRun).at = 0 ->
                 LET if == Expect(parseRun, "IF")
                 IN  Try(if, Call(if, 1, "parseExpression", 0))
           [] Frame(parseRun).at = 1 -> Call(parseRun, 2, "parseFunctionBody", 0)
           [] Frame(parseRun).at = 2 -> Call(parseRun, 3, "parseElseOrElif", 0)
           [] Frame(parseRun).at = 3 -> Ret(parseRun, "IfStatement"))

ParseElseOrElif ==
    Step("parseElseOrElif",
         CASE Frame(parseRun).at = 0 ->
                 IF Peek(parseRun) = "ELIF"
                 THEN Call(Advance(parseRun), 1, "parseExpression", 0)
                 ELSE IF Peek(parseRun) = "ELSE"
                 THEN Call(Advance(parseRun), 4, "parseFunctionBody", 0)
                 ELSE Ret(parseRun, "undefined")
           [] Frame(parseRun).at = 1 -> Call(parseRun, 2, "parseFunctionBody", 0)
           [] Frame(parseRun).at = 2 -> Call(parseRun, 3, "parseElseOrElif", 0)
           [] Frame(parseRun).at = 3 -> Ret(parseRun, "IfStatement")
           [] Frame(parseRun).at = 4 -> Ret(parseRun, parseRun.kind))

ParseExpression ==
    Step("parseExpression",
         IF Frame(parseRun).at = 0
         THEN LET checked == CheckDepth(parseRun)
              IN  Try(checked, Call(checked, 1, "parseAssignment", 0))
         ELSE Ret([parseRun EXCEPT !.depth = RestoreDepth(@)], parseRun.kind))

ParseAssignment ==
    Step("parseAssignment",
         CASE Frame(parseRun).at = 0 ->
                 LET first  == IF Peek(parseRun) = "IDENTIFIER" THEN IdentArrow(parseRun)
                               ELSE [arrow |-> FALSE, s |-> parseRun, params |-> <<>>]
                     second == IF ~first.arrow /\ Peek(first.s) = "LPAREN"
                               THEN ParenArrow(first.s)
                               ELSE [arrow |-> FALSE, s |-> first.s, params |-> <<>>]
                 IN  IF first.arrow
                     THEN Call(Commit(parseRun, first), 1, "parseAssignment", 0)
                     ELSE IF second.arrow
                     THEN Call(Commit(first.s, second), 1, "parseAssignment", 0)
                     ELSE Call(second.s, 2, "parseTernary", 0)
           [] Frame(parseRun).at = 1 -> RetArrow(parseRun)
           [] Frame(parseRun).at = 2 ->
                 IF Peek(parseRun) # "ASSIGN" THEN Ret(parseRun, parseRun.kind)
                 ELSE IF parseRun.kind \notin {"Identifier", "MemberExpression"}
                 THEN Throw(parseRun, "Invalid assignment target")
                 ELSE Call(Advance(parseRun), 3, "parseAssignment", 0)
           [] Frame(parseRun).at = 3 -> Ret(parseRun, "AssignmentStatement"))

ParseTernary ==
    Step("parseTernary",
         CASE Frame(parseRun).at = 0 -> Call(parseRun, 1, "parseBinary", 1)
           [] Frame(parseRun).at = 1 ->
                 IF Peek(parseRun) = "QUESTION"
                 THEN Call(Advance(parseRun), 2, "parseTernary", 0)
                 ELSE Ret(parseRun, parseRun.kind)
           [] Frame(parseRun).at = 2 ->
                 LET colon == Expect(parseRun, "COLON")
                 IN  Try(colon, Call(colon, 3, "parseTernary", 0))
           [] Frame(parseRun).at = 3 -> Ret(parseRun, "TernaryExpression"))

\* parseLogicalOr (level 1), parseLogicalAnd, parseEquality, parseRelational,
\* parseAdditive, parseMultiplicative (level 6)
ParseBinary ==
    LET level == Frame(parseRun).x
        s     == IF Frame(parseRun).at = 2
                 THEN [parseRun EXCEPT !.kind = "BinaryExpression"] ELSE parseRun
    IN  Step("parseBinary",
             IF Frame(parseRun).at = 0 \/ Peek(s) \in BinaryOps(level)
             THEN LET operand == IF Frame(parseRun).at = 0 THEN s ELSE Advance(s)
                      resume  == IF Frame(parseRun).at = 0 THEN 1 ELSE 2
                  IN  IF level < 6 THEN Call(operand, resume, "parseBinary", level + 1)
                      ELSE Call(operand, resume, "parseUnary", 0)
             ELSE Ret(s, s.kind))

ParseUnary ==
    Step("parseUnary",
         CASE Frame(parseRun).at = 0 ->
                 IF Peek(parseRun) \in {"MINUS", "NOT"}
                 THEN Call(Advance(parseRun), 1, "parseUnary", 0)
                 ELSE Call(parseRun, 2, "parsePostfix", 0)
           [] Frame(parseRun).at = 1 -> Ret(parseRun, "UnaryExpression")
           [] Frame(parseRun).at = 2 -> Ret(parseRun, parseRun.kind))

ParsePostfix ==
    Step("parsePostfix",
         CASE Frame(parseRun).at = 0 -> Call(parseRun, 1, "parsePrimary", 0)
           [] Frame(parseRun).at = 1 -> PostfixLoop(parseRun)
           [] Frame(parseRun).at = 2 -> Arguments(AdvanceIf(parseRun, "COMMA"))
           [] Frame(parseRun).at = 3 ->
                 LET close == Expect(parseRun, "RBRACKET")
                 IN  Try(close, PostfixLoop([close EXCEPT !.kind = "MemberExpression"])))

ParsePrimary ==
    LET token == Peek(parseRun)
    IN  Step("parsePrimary",
             CASE Frame(parseRun).at = 0 ->
                     IF token \in {"NUMBER", "STRING", "TRUE", "FALSE", "NULL"}
                     THEN Ret(Advance(parseRun), LiteralKind(token))
                     ELSE IF token = "IDENTIFIER"
                     THEN \* nextToken = this.peek() is the identifier again
                          IF Peek(parseRun) = "ARROW"
                          THEN Call(Commit(parseRun,
                                           [s |-> Advance(parseRun),
                                            params |-> <<SkipNewlines(parseRun.tokens,
                                                                      parseRun.pos)>>]),
                                    2, "parseExpression", 0)
                          ELSE Ret(Advance(RestorePos(parseRun, parseRun.pos)), "Identifier")
                     ELSE IF token = "LBRACKET" THEN Elements(Advance(parseRun))
                     ELSE IF token = "LPAREN"
                     THEN IF ParenArrow(parseRun).arrow
                          THEN Call(Commit(parseRun, ParenArrow(parseRun)), 2,
                                    "parseExpression", 0)
                          ELSE Call(Advance(ParenArrow(parseRun).s), 3, "parseExpression", 0)
                     ELSE IF token = "LBRACE" THEN Properties(Advance(parseRun))
                     ELSE Throw(parseRun, "Unexpected token " \o token)
               [] Frame(parseRun).at = 1 -> Elements(AdvanceIf(parseRun, "COMMA"))
               [] Frame(parseRun).at = 2 -> RetArrow(parseRun)
               [] Frame(parseRun).at = 3 ->
                     LET close == Expect(parseRun, "RPAREN")
                     IN  Try(close, Ret(close, close.kind))
               [] Frame(parseRun).at = 4 -> Properties(AdvanceIf(parseRun, "COMMA")))

(***************************************************************************)
(* Specification SpecParser: parseProgram on token sequences that nest or  *)
(* repeat one construct k times.                                           *)
(***************************************************************************)
MaxSmall == 2

MaxNest == 51

\* a few shallow inputs and the inputs around the ceiling
Nestings == 0..MaxSmall \cup (ParserMaxDepth - 1)..MaxNest

RECURSIVE Rep(_, _)
\* k copies of the token sequence ts
Rep(k, ts) == IF k = 0 THEN <<>> ELSE ts \o Rep(k - 1, ts)

\* { p: <expression tokens> }
AsProperty(ts) == <<"LBRACE", "IDENTIFIER", "COLON">> \o ts \o <<"RBRACE", "EOF">>

MethodHead ==
    <<"LBRACE", "NEWLINE", "IDENTIFIER", "LPAREN", "IDENTIFIER", "COMMA", "IDENTIFIER",
      "RPAREN", "LBRACE", "NEWLINE">>

\* { f(a, b) { <statement tokens> } }, with the line breaks of a written method
AsMethod(ts) ==
    MethodHead \o ts \o <<"NEWLINE", "RBRACE", "NEWLINE", "RBRACE", "EOF">>

\* constructs whose nesting goes through parseExpression
ExpressionShapes == {"paren", "array", "call", "index", "object", "negarrow"}

\* the other constructs that nest k deep
NestingShapes == {"unary", "assign", "arrow", "parenarrow", "ternary", "elif", "if"}

\* constructs that repeat k times side by side
RepeatingShapes == {"elements", "sum", "statements"}

Tokens(shape, k) ==
    CASE shape = "paren" ->
            AsProperty(Rep(k, <<"LPAREN">>) \o <<"NUMBER">> \o Rep(k, <<"RPAREN">>))
      [] shape = "array" ->
            AsProperty(Rep(k, <<"LBRACKET">>) \o <<"NUMBER">> \o Rep(k, <<"RBRACKET">>))
      [] shape = "call" ->
            AsProperty(Rep(k, <<"IDENTIFIER", "LPAREN">>) \o <<"NUMBER">>
                       \o Rep(k, <<"RPAREN">>))
      [] shape = "index" ->
            AsProperty(Rep(k, <<"IDENTIFIER", "LBRACKET">>) \o <<"NUMBER">>
                       \o Rep(k, <<"RBRACKET">>))
      [] shape = "object" ->
            AsProperty(Rep(k, <<"LBRACE", "IDENTIFIER", "COLON">>) \o <<"NUMBER">>
                       \o Rep(k, <<"RBRACE">>))
      [] shape = "negarrow" ->
            AsProperty(Rep(k, <<"MINUS", "LPAREN", "IDENTIFIER", "RPAREN", "ARROW">>)
                       \o <<"NUMBER">>)
      [] shape = "unary" -> AsProperty(Rep(k, <<"MINUS">>) \o <<"NUMBER">>)
      [] shape = "assign" -> AsProperty(Rep(k, <<"IDENTIFIER", "ASSIGN">>) \o <<"NUMBER">>)
      [] shape = "arrow" -> AsProperty(Rep(k, <<"IDENTIFIER", "ARROW">>) \o <<"NUMBER">>)
      [] shape = "parenarrow" ->
            AsProperty(Rep(k, <<"LPAREN", "IDENTIFIER", "COMMA", "IDENTIFIER", "RPAREN",
                                "ARROW">>) \o <<"NUMBER">>)
      [] shape = "ternary" ->
            AsProperty(Rep(k, <<"IDENTIFIER", "QUESTION">>) \o <<"NUMBER">>
                       \o Rep(k, <<"COLON", "NUMBER">>))
      [] shape = "elif" ->
            AsMethod(<<"IF", "IDENTIFIER", "LBRACE", "NUMBER", "RBRACE">>
                     \o Rep(k, <<"ELIF", "IDENTIFIER", "LBRACE", "NUMBER", "RBRACE">>))
      [] shape = "if" ->
            AsMethod(Rep(k, <<"IF", "IDENTIFIER", "LBRACE">>) \o <<"NUMBER">>
                     \o Rep(k, <<"RBRACE">>))
      [] shape = "elements" ->
            AsProperty(<<"LBRACKET">> \o Rep(k, <<"NUMBER", "COMMA">>) \o <<"RBRACKET">>)
      [] shape = "sum" -> AsProperty(<<"NUMBER">> \o Rep(k, <<"PLUS", "NUMBER">>))
      [] shape = "statements" ->
            AsMethod(Rep(k, <<"IDENTIFIER", "ASSIGN", "NUMBER", "SEMICOLON", "NEWLINE">>))

InitParser ==
    /\ parseRun \in {NewParser(shape, k, Tokens(shape, k)) :
                        shape \in ExpressionShapes \cup NestingShapes \cup RepeatingShapes,
                        k \in Nestings}
    /\ frames = <<>>
    /\ stack = <<>>
    /\ lastDef = NoDef
    /\ evRun = NoRun
    /\ path = "none"
    /\ cenv = <<>>
    /\ objHist = NoRun
    /\ opRun = NoRun
    /\ calc = <<>>
    /\ calcTrace = <<>>
    /\ loopRun = NoRun
    /\ rt = NoRun
    /\ tokRun = NoRun

NextParser ==
    \/ ParseProgram
    \/ ParseFunctionBody
    \/ ParseStatement
    \/ ParseIfStatement
    \/ ParseElseOrElif
    \/ ParseExpression
    \/ ParseAssignment
    \/ ParseTernary
    \/ ParseBinary
    \/ ParseUnary
    \/ ParsePostfix
    \/ ParsePrimary

SpecParser == InitParser /\ [][NextParser]_vars

\* parseProgram has returned or thrown
Finished == parseRun # NoRun /\ parseRun.stk = <<>>

\* C5: while no error is thrown the depth counter equals the number of
\* parseExpression calls in progress (one less while the call on top has
\* not yet run its depth check), so it is back at zero when the parse ends
\* normally; a token sequence is rejected with the maximum-depth error
\* exactly when it nests parseExpression calls more than 50 deep, and
\* k nested brackets, calls, indexings or object literals under a property
\* nest them k + 1 deep.
C5_DepthCounterTracksParseExpression ==
    parseRun # NoRun =>
        /\ parseRun.err = "" =>
               parseRun.depth =
                   IF parseRun.stk # <<>> /\ Frame(parseRun).fn = "parseExpression"
                      /\ Frame(parseRun).at = 0
                   THEN parseRun.active - 1 ELSE parseRun.active
        /\ parseRun.err = "" => parseRun.depth <= ParserMaxDepth
        /\ parseRun.err = ParserDepthError => parseRun.maxpe > ParserMaxDepth
        /\ Finished =>
               /\ parseRun.maxpe > ParserMaxDepth => parseRun.err = ParserDepthError
               /\ parseRun.err = "" => parseRun.depth = 0
               /\ parseRun.shape \in ExpressionShapes =>
                      parseRun.maxpe = IF parseRun.k + 1 > ParserMaxDepth
                                       THEN ParserMaxDepth + 1 ELSE parseRun.k + 1

\* C5 witness: fifty nested parentheses under a property, which nest
\* parseExpression fifty-one deep, have been rejected
C5_Witness ==
    /\ Finished
    /\ parseRun.shape = "paren"
    /\ parseRun.k = ParserMaxDepth
    /\ parseRun.maxpe = ParserMaxDepth + 1
    /\ parseRun.err = ParserDepthError

\* C6: a token sequence that nests any construct more than 50 deep is
\* rejected with the maximum-depth error.
C6_AllRecursionIsDepthChecked ==
    (Finished /\ parseRun.shape \in ExpressionShapes \cup NestingShapes
        /\ parseRun.k > ParserMaxDepth) =>
        parseRun.err = ParserDepthError

(***************************************************************************)
(* Specification SpecCalc: the calculator program of seval.test.ts,        *)
(* compiled by the native build and driven by executeSeval with a state    *)
(* object, the returned updates being merged into the state before the     *)
(* next action.  The members the three actions do not reach (hasDecimal,   *)
(* negateStr, action_decimal, action_clear, action_negate, action_percent) *)
(* and the operator "/", whose quotients are not whole, are left out.      *)
(***************************************************************************)
MaxActions == 3

\* the syntax tree parseProgram builds for the program text
CalculatorCode ==
    LET id(name)     == Identifier(name)
        chars(s)     == Literal(Str(s))
        this(p)      == MemberExpression(Identifier("this"), p)
        set(p, v)    == AssignmentStatement(this(p), v)
        call(f, as)  == CallExpression(Identifier(f), as)
        pf(x)        == CallExpression(MemberExpression(Identifier("Number"), "parseFloat"),
                                       <<x>>)
        is(op)       == BinaryExpression("==", id("op"), chars(<<op>>))
        bin(op)      == BinaryExpression(op, pf(id("a")), pf(id("b")))
        ctx(p)       == MemberExpression(Identifier("context"), p)
        billion      == Literal(Num(1000000000))
        calc3        == call("calcOp", <<id("operator"), id("memory"), id("display")>>)
        shown(x)     == BinaryExpression("+", BinaryExpression("+", x, chars(<<" ">>)),
                                         ctx("op"))
    IN  <<FunctionDef("formatNum", <<"n">>,
              call("String",
                   <<BinaryExpression("/",
                         CallExpression(MemberExpression(Identifier("Math"), "round"),
                                        <<BinaryExpression("*", id("n"), billion)>>),
                         billion)>>)),
          FunctionDef("calcOp", <<"op", "a", "b">>,
              call("formatNum",
                   <<TernaryExpression(is("+"), bin("+"),
                     TernaryExpression(is("-"), bin("-"),
                     TernaryExpression(is("*"), bin("*"),
                     TernaryExpression(is("/"),
                         TernaryExpression(
                             BinaryExpression("==", pf(id("b")), Literal(Num(0))),
                             Literal(Num(0)), bin("/")),
                         pf(id("b"))))))>>)),
          FunctionDef("action_digit", <<>>,
              IfStatement(id("waitingForOperand"),
                  BlockExpression(
                      <<set("display", call("String", <<ctx("digit")>>)),
                        set("waitingForOperand", Literal(Bool(FALSE)))>>),
                  set("display", BinaryExpression("+", id("display"),
                                                  call("String", <<ctx("digit")>>))))),
          FunctionDef("action_operator", <<>>,
              IfStatement(id("waitingForOperand"),
                  BlockExpression(
                      <<set("memory", id("display")),
                        set("operator", ctx("op")),
                        set("waitingForOperand", Literal(Bool(TRUE))),
                        set("history", shown(id("display")))>>),
                  BlockExpression(
                      <<AssignmentStatement(id("result"), calc3),
                        set("display", id("result")),
                        set("memory", id("result")),
                        set("operator", ctx("op")),
                        set("waitingForOperand", Literal(Bool(TRUE))),
                        set("history", shown(id("result")))>>))),
          FunctionDef("action_equals", <<>>,
              IfStatement(UnaryExpression("!", id("waitingForOperand")),
                  BlockExpression(
                      <<set("display", calc3),
                        set("memory", chars(<<"0">>)),
                        set("operator", chars(<<>>)),
                        set("waitingForOperand", Literal(Bool(TRUE))),
                        set("history", chars(<<>>))>>),
                  NoAlternate))>>

\* SevalCompiler.compile: methods become functions, properties their values
Compile(program) ==
    [name \in {program[i].name : i \in 1..Len(program)} |->
        LET member == program[CHOOSE i \in 1..Len(program) :
                                  /\ program[i].name = name
                                  /\ \A j \in 1..Len(program) :
                                         program[j].name = name => j <= i]
        IN  IF member.kind = "FunctionDef" THEN Function(member) ELSE member.value.value]

\* executeSeval(env, functionName, args, state) of the native build
ExecuteSeval(env, functionName, args, state) ==
    IF Prop(env, functionName).t # "function"
    THEN [ok |-> FALSE, val |-> Undef, th |-> state @@ env]
    ELSE Bind(CompileFunction(env[functionName].v, state @@ env, args), LAMBDA r :
        IF ~r.ok THEN [ok |-> FALSE, val |-> Undef, th |-> r.th]
        ELSE Bind({key \in DOMAIN r.th \ {SurfaceSlot, SetCalledSlot} :
                       key \notin DOMAIN env \/ Prop(state, key) # r.th[key]},
                  LAMBDA changed :
                      [ok |-> TRUE,
                       val |-> IF changed # {} THEN Object([key \in changed |-> r.th[key]])
                               ELSE r.val,
                       th |-> r.th]))

UpdatesDropped(state, updates) == state

\* state = { ...state, ...updates }
ApplyUpdates(state, updates) == updates @@ state

DigitInputs == {Num(3), Num(7)}

OperatorInputs == {Str(<<"+">>), Str(<<"-">>), Str(<<"*">>)}

Action(name, arg) == [name |-> name, arg |-> arg]

InitCalc ==
    /\ calc = [display |-> Str(<<"5">>), memory |-> Str(<<"0">>), operator |-> Str(<<>>),
               waitingForOperand |-> Bool(FALSE)]
    /\ calcTrace = <<>>
    /\ loopRun = NoRun
    /\ rt = NoRun
    /\ tokRun = NoRun
    /\ frames = <<>>
    /\ stack = <<>>
    /\ lastDef = NoDef
    /\ evRun = NoRun
    /\ path = "none"
    /\ cenv = <<>>
    /\ objHist = NoRun
    /\ opRun = NoRun
    /\ parseRun = NoRun

\* one action of the scenario: the handler is run on the state and what
\* executeSeval returns is merged into the state
Dispatch(name, state, arg) ==
    /\ Len(calcTrace) < MaxActions
    /\ \E env \in {Compile(CalculatorCode)}, st \in {state} :
           \E r \in {ExecuteSeval(env, name, <<>>, st)} :
               calc' = IF r.ok /\ r.val.t = "object" THEN ApplyUpdates(st, r.val.v) ELSE st
    /\ calcTrace' = Append(calcTrace, Action(name, arg))
    /\ UNCHANGED <<evalVars, objVars, opRun, parseRun, bridgeVars>>

\* state.context = { digit }, then action_digit
ActionDigit(digit) ==
    Dispatch("action_digit", SetProp(calc, "context", Object([digit |-> digit])), digit)

\* state.context = { op }, then action_operator
ActionOperator(op) ==
    Dispatch("action_operator", SetProp(calc, "context", Object([op |-> op])), op)

ActionEquals == Dispatch("action_equals", calc, Null)

NextCalc ==
    \/ \E digit \in DigitInputs : ActionDigit(digit)
    \/ \E op \in OperatorInputs : ActionOperator(op)
    \/ ActionEquals

SpecCalc == InitCalc /\ [][NextCalc]_vars

MaxIter == 5

\* the evaluator that runs the self-hosted compiler is created with this
BackendAMaxDepth == 10000

\* one lexeme of the source: its host TokenType, the type and the value the
\* self-hosted tokenizer gives it ("" for a newline, which that tokenizer
\* skips as whitespace)
Lexeme(host, sexp, value) == [host |-> host, sexp |-> sexp, value |-> value]

LoopSource(form, k) ==
    LET name(n)   == Lexeme("IDENTIFIER", "Identifier", Sym(n))
        number(n) == Lexeme("NUMBER", "Number", Num(n))
        assign    == Lexeme("ASSIGN", "Unknown", Sym("="))
        plus      == Lexeme("PLUS", "Plus", Sym("+"))
        semicolon == Lexeme("SEMICOLON", "Semicolon", Sym(";"))
        lparen    == Lexeme("LPAREN", "LeftParen", Sym("("))
        rparen    == Lexeme("RPAREN", "RightParen", Sym(")"))
        lbrace    == Lexeme("LBRACE", "LeftBrace", Sym("{"))
        rbrace    == Lexeme("RBRACE", "RightBrace", Sym("}"))
        newline   == Lexeme("NEWLINE", "", Null)
    IN  <<lbrace, newline, name("calculate"), lparen, rparen, lbrace, newline,
          name("total"), assign, number(0), newline,
          Lexeme("FOR", "For", Sym("for"))>>
        \o (IF form = "c" THEN <<lparen>> ELSE <<>>)
        \o <<name("i"), assign, number(0), semicolon,
             name("i"), Lexeme("LT", "Less", Sym("<")), number(k), semicolon,
             name("i"), assign, name("i"), plus, number(1)>>
        \o (IF form = "c" THEN <<rparen>> ELSE <<>>)
        \o <<lbrace, newline,
             name("total"), assign, name("total"), plus, name("i"), newline,
             rbrace, newline,
             name("total"), newline,
             rbrace, newline,
             rbrace, Lexeme("EOF", "EOF", Sym(""))>>

\* Tokenizer.tokenize of the host: the token types
HostTokens(source) == [i \in 1..Len(source) |-> source[i].host]

\* (tokenize src) of the self-hosted compiler
SexpTokens(source) ==
    LET kept == SelectSeq(source, LAMBDA lexeme : lexeme.sexp # "")
    IN  [i \in 1..Len(kept) |-> Tok(kept[i].sexp, kept[i].value)]

\* Backend A: (compile-to-sexpr src), the result evaluated in a fresh
\* environment, then (calculate)
RunLoopBackendA(source) ==
    Bind(SexpParse(SexpTokens(source)), LAMBDA parsed :
        IF parsed.diverges THEN [ok |-> FALSE, err |-> DepthError, total |-> Undef]
        ELSE Bind(EvaluateRoot(Transform(parsed.node), BackendAMaxDepth), LAMBDA loaded :
                 Bind(EvalExpr(List(<<Sym("calculate")>>), 1, 0, loaded.st), LAMBDA r :
                     [ok |-> loaded.ok /\ r.ok, err |-> r.err, total |-> r.val])))

InitLoop ==
    /\ \E form \in {"go", "c"}, k \in 0..MaxIter :
           /\ parseRun = NewParser(form, k, HostTokens(LoopSource(form, k)))
           /\ loopRun = [form |-> form, k |-> k, resA |-> NoRun, resB |-> NoRun]
    /\ frames = <<>>
    /\ stack = <<>>
    /\ lastDef = NoDef
    /\ evRun = NoRun
    /\ path = "none"
    /\ cenv = <<>>
    /\ objHist = NoRun
    /\ opRun = NoRun
    /\ calc = <<>>
    /\ calcTrace = <<>>
    /\ rt = NoRun
    /\ tokRun = NoRun

\* Backend A on the source
CompileToSexpr ==
    /\ loopRun.resA = NoRun
    /\ loopRun' = [loopRun EXCEPT
                      !.resA = RunLoopBackendA(LoopSource(loopRun.form, loopRun.k))]
    /\ UNCHANGED <<evalVars, objVars, opRun, parseRun, calcVars, rt, tokRun>>

\* compileSeval once parseProgram has ended: what the parser threw is thrown
\* to the caller, and there is then no environment to call calculate in
CompileSeval ==
    /\ parseRun.stk = <<>>
    /\ loopRun.resB = NoRun
    /\ loopRun' = [loopRun EXCEPT
                      !.resB = [ok |-> parseRun.err = "", err |-> parseRun.err,
                                total |-> Undef]]
    /\ UNCHANGED <<evalVars, objVars, opRun, parseRun, calcVars, rt, tokRun>>

NextLoop ==
    \/ ParseProgram
    \/ ParseFunctionBody
    \/ ParseStatement
    \/ ParseAssignment
    \/ ParseTernary
    \/ ParseBinary
    \/ ParseUnary
    \/ ParsePostfix
    \/ ParsePrimary
    \/ CompileToSexpr
    \/ CompileSeval

SpecLoop == InitLoop /\ [][NextLoop]_vars

\* 0 + 1 + ... + (k - 1)
SumBelow(k) == (k * (k - 1)) \div 2

\* C11: the method, written with the three-clause for loop, returns
\* 0 + 1 + ... + (k - 1) under Backend A and under Backend B (10 for k = 5).
C11_ForLoopSums ==
    loopRun.form = "go" =>
        /\ loopRun.resA # NoRun =>
               (loopRun.resA.ok /\ loopRun.resA.total = Num(SumBelow(loopRun.k)))
        /\ loopRun.resB # NoRun =>
               (loopRun.resB.ok /\ loopRun.resB.total = Num(SumBelow(loopRun.k)))

(***************************************************************************)
(* Specification SpecBridge: the runtime bridge, in its two forms:         *)
(* SExpRuntime (packages/react-code/src/SExpRuntime.ts), whose handlers    *)
(* are lambdas of the expression evaluator, and SevalRuntime, whose        *)
(* handlers are methods compiled by the native build.                      *)
(*                                                                         *)
(* rt is [kind, loaded, env, dataModel, version, lastError, threw, failed, *)
(* call, pre, program, ...]: env is baseEnv or sevalEnv, threw says the    *)
(* last call ended by throwing to its caller, failed that an error arose   *)
(* inside it, call and pre are the last call and the state it started in.  *)
(***************************************************************************)
MaxLoads == 1

MaxCalls == 3

MaxSteps == 3

\* createEvaluator({ maxDepth: 10000, ... }) of the SExpRuntime constructor
RuntimeMaxDepth == 10000

PropertyDef(name, value) == [kind |-> "PropertyDef", name |-> name, value |-> value]

InputBinding == "__inputBinding"

UpdateDerived == "updateDerived"

\* the three names a handler of the action may have, in lookup order
HandlerNames(name) == <<"action:" \o name, "action_" \o name, name>>

\* the key a handler of the programs below sets to 1 when it runs
RanKey(i) == <<<<"r", "a", "n", "C">>, <<"r", "a", "n", "U">>, <<"r", "a", "n", "B">>>>[i]

DerivedKey == <<"d", "e", "r", "i", "v", "e", "d">>

\* if (path): the context names a non-empty path
HasPath(context) ==
    /\ "path" \in DOMAIN context
    /\ context["path"].t = "str"
    /\ context["path"].v # <<>>

\* the __inputBinding branch of handleAction, up to incrementVersion
WriteInput(s, context) ==
    [s EXCEPT !.dataModel = UpdateDataModel(@, StripLeadingSlash(context["path"].v),
                                            Prop(context, "value")),
              !.version = @ + 1]

RECURSIVE ApplyPairs(_, _)
\* the legacy update list: every [key, value] pair is written, anything else
\* is skipped
ApplyPairs(dataModel, updates) ==
    IF updates = <<>> THEN dataModel
    ELSE ApplyPairs(IF Head(updates).t = "list" /\ Len(Head(updates).v) = 2
                    THEN UpdateDataModel(dataModel, ToStr(Head(updates).v[1]),
                                         Head(updates).v[2])
                    ELSE dataModel,
                    Tail(updates))

\* SExpRuntime.applyUpdates
SExpApplyUpdates(s, result) ==
    IF result.t # "list" THEN s
    ELSE [s EXCEPT !.dataModel = ApplyPairs(@, result.v), !.version = @ + 1]

\* catch (error) { console.error(...) } of SExpRuntime: the call goes on to
\* return
LogError(s) == [s EXCEPT !.failed = TRUE]

\* SExpRuntime.loadCode(code) with lang 'seval': (progn code) is parsed and
\* evaluated in baseEnv
SExpLoadCode(s, code) ==
    IF ~code.parses THEN LogError(s)
    ELSE \* frame 1 is baseEnv
         Bind(EvalExpr(List(<<Sym("progn")>> \o code.forms), 1, 0,
                       [frames |-> <<[parent |-> NoEnv, b |-> s.env]>>,
                        maxDepth |-> RuntimeMaxDepth, mdr |-> 0]), LAMBDA r :
             IF r.ok THEN [s EXCEPT !.env = r.st.frames[1].b]
             ELSE LogError([s EXCEPT !.env = r.st.frames[1].b]))

\* buildEnvironment: { ...baseEnv, ...dataModel, context }
BuildEnvironment(s, context) == ("context" :> Object(context)) @@ s.dataModel @@ s.env

\* SExpRuntime.handleAction
SExpHandleAction(s, name, context) ==
    IF name = InputBinding THEN (IF HasPath(context) THEN WriteInput(s, context) ELSE s)
    ELSE
    LET first  == Prop(s.env, HandlerNames(name)[1])
        second == IF ~IsLambda(first) THEN Prop(s.env, HandlerNames(name)[2]) ELSE first
        actionFn == IF ~IsLambda(second) THEN Prop(s.env, HandlerNames(name)[3]) ELSE second
    IN  IF ~IsLambda(actionFn) THEN s
        ELSE \* frame 1 is baseEnv, which the closures hold; frame 2 is env
             Bind(EvalExpr(actionFn.v.body, 2, 0,
                           [frames |-> <<[parent |-> NoEnv, b |-> s.env],
                                         [parent |-> NoEnv, b |-> BuildEnvironment(s, context)]>>,
                            maxDepth |-> RuntimeMaxDepth, mdr |-> 0]), LAMBDA r :
                 IF r.ok THEN SExpApplyUpdates([s EXCEPT !.env = r.st.frames[1].b], r.val)
                 ELSE LogError([s EXCEPT !.env = r.st.frames[1].b]))

\* SevalRuntime.handleError: the error is recorded and thrown on
HandleError(s, message) ==
    [s EXCEPT !.lastError = message, !.failed = TRUE, !.threw = TRUE]

\* SevalRuntime.loadCode
SevalLoadCode(s, code) ==
    IF ~code.parses THEN HandleError(s, "Error loading seval code")
    ELSE [s EXCEPT !.loaded = TRUE, !.env = Compile(code.members)]

\* SevalRuntime.applyUpdates
SevalApplyUpdates(s, result) ==
    CASE result.t = "object" ->
            [s EXCEPT !.dataModel =
                          [key \in DOMAIN result.v \ {"context", "get", "set"} |->
                              ValueToJS(result.v[key])] @@ @,
                      !.version = @ + 1]
      [] result.t = "list" ->
            [s EXCEPT !.dataModel = ApplyPairs(@, result.v), !.version = @ + 1]
      [] result.t \notin {"object", "list"} -> s

\* the env object handleAction builds: { ...dataModel, context, get, set },
\* with the surface its set helper writes to
ActionState(s, context) ==
    (SurfaceSlot :> Object(s.dataModel)) @@ (SetCalledSlot :> Bool(FALSE))
    @@ ("context" :> Object(context)) @@ ("get" :> Host("get")) @@ ("set" :> Host("set"))
    @@ s.dataModel

RECURSIVE SevalHandleAction(_, _, _)
\* SevalRuntime.handleAction
SevalHandleAction(s, name, context) ==
    IF name = InputBinding THEN
        IF ~HasPath(context) THEN s
        ELSE IF s.loaded /\ UpdateDerived \in DOMAIN s.env
        THEN SevalHandleAction(WriteInput(s, context), UpdateDerived, <<>>)
        ELSE WriteInput(s, context)
    ELSE IF ~s.loaded THEN s
    ELSE IF HandlerNames(name)[2] \notin DOMAIN s.env /\ name \notin DOMAIN s.env THEN s
    ELSE
    LET fnName == IF HandlerNames(name)[2] \in DOMAIN s.env THEN HandlerNames(name)[2]
                  ELSE name
    IN  Bind(ExecuteSeval(s.env, fnName, <<>>, ActionState(s, context)), LAMBDA r :
        Bind([s EXCEPT !.dataModel = r.th[SurfaceSlot].v], LAMBDA written :
            IF ~r.ok THEN HandleError(written, "Error executing action")
            ELSE Bind(SevalApplyUpdates(written, r.val), LAMBDA applied :
                 Bind(IF Truthy(r.th[SetCalledSlot]) /\ ~Truthy(r.val)
                      THEN [applied EXCEPT !.version = @ + 1] ELSE applied, LAMBDA counted :
                     IF name # UpdateDerived /\ UpdateDerived \in DOMAIN s.env
                     THEN Bind(SevalHandleAction(counted, UpdateDerived, <<>>), LAMBDA d :
                              IF d.threw THEN HandleError(d, d.lastError) ELSE d)
                     ELSE counted))))

\* a step of a program: a write or a call of a function nobody defined
DefineStep(name, value) == [op |-> "define", name |-> name, value |-> value]

FailStep == [op |-> "fail"]

Steps == {DefineStep(<<"a">>, Num(1)), DefineStep(<<"b">>, Num(2)), FailStep}

StepSeqs == UNION {[1..n -> Steps] : n \in 1..MaxSteps}

Bindings == {"none", "function", "value"}

\* a program: what its three handler names for the action go are bound to,
\* the steps it runs, whether it defines updateDerived, whether it parses
BridgeProgram(bindings, steps, derived, parses) ==
    [bindings |-> bindings, steps |-> steps, derived |-> derived, parses |-> parses]

BridgePrograms ==
    {BridgeProgram(<<"none", "none", "none">>, <<>>, FALSE, FALSE)}
    \cup {BridgeProgram(bindings, <<>>, derived, TRUE) :
              bindings \in Bindings \X Bindings \X Bindings, derived \in BOOLEAN}
    \cup {BridgeProgram(<<"none", "none", "none">>, steps, FALSE, TRUE) : steps \in StepSeqs}

\* the program as S-expression forms: handlers that return the update
\* ((ranX 1)), the steps at top level
SExpCode(program) ==
    LET define(i) ==
            IF program.bindings[i] = "function"
            THEN <<List(<<Sym("define"), List(<<Sym(HandlerNames("go")[i])>>),
                          List(<<Sym("quote"),
                                 List(<<List(<<Str(RanKey(i)), Num(1)>>)>>)>>)>>)>>
            ELSE IF program.bindings[i] = "value"
            THEN <<List(<<Sym("define"), Sym(HandlerNames("go")[i]), Num(1)>>)>>
            ELSE <<>>
        step(i) ==
            IF program.steps[i].op = "define"
            THEN List(<<Sym("define"), Sym(Join(program.steps[i].name)),
                        program.steps[i].value>>)
            ELSE List(<<Sym("nofn")>>)
    IN  [parses |-> program.parses,
         forms |-> define(1) \o define(2) \o define(3)
                   \o [i \in 1..Len(program.steps) |-> step(i)]
                   \o (IF program.derived
                       THEN <<List(<<Sym("define"), List(<<Sym(UpdateDerived)>>),
                                     List(<<Sym("quote"),
                                            List(<<List(<<Str(DerivedKey), Num(1)>>)>>)>>)>>)>>
                       ELSE <<>>)]

\* the program as members of a Seval object: handlers that assign
\* this.ranX = 1, the steps as the body of action_run, set(name, value) for a
\* write
SevalCode(program) ==
    LET mark(key) == AssignmentStatement(MemberExpression(Identifier("this"), Join(key)),
                                         Literal(Num(1)))
        member(i) ==
            IF program.bindings[i] = "function"
            THEN <<FunctionDef(HandlerNames("go")[i], <<>>, mark(RanKey(i)))>>
            ELSE IF program.bindings[i] = "value"
            THEN <<PropertyDef(HandlerNames("go")[i], Literal(Num(1)))>>
            ELSE <<>>
        step(i) ==
            IF program.steps[i].op = "define"
            THEN CallExpression(Identifier("set"),
                                <<Literal(Str(program.steps[i].name)),
                                  Literal(program.steps[i].value)>>)
            ELSE CallExpression(Identifier("nofn"), <<>>)
    IN  [parses |-> program.parses,
         members |-> member(2) \o member(3)
                     \o (IF program.steps # <<>>
                         THEN <<FunctionDef("action_run", <<>>,
                                    BlockExpression([i \in 1..Len(program.steps) |-> step(i)]))>>
                         ELSE <<>>)
                     \o (IF program.derived
                         THEN <<FunctionDef(UpdateDerived, <<>>, mark(DerivedKey))>>
                         ELSE <<>>)]

\* an identifier of the Seval language cannot hold a colon
Writable(kind, program) == kind = "seval" => program.bindings[1] = "none"

ActionNames == {"go", "run", UpdateDerived}

InputPaths == {<<"/", "x">>, <<"x">>, <<"/", "a", "/", "b">>, <<"a", "/", "c">>, <<"l", "/", "0">>}

InputValues == {Num(7), Str(<<"9">>), List(<<List(<<Str(<<"k">>), Num(1)>>)>>)}

NewRuntime(kind) ==
    [kind |-> kind, loaded |-> FALSE, env |-> <<>>, dataModel |-> <<>>, version |-> 0,
     lastError |-> "", threw |-> FALSE, failed |-> FALSE,
     call |-> NoRun, pre |-> NoRun, program |-> NoRun, loads |-> 0, calls |-> 0]

InitBridge ==
    /\ rt \in {NewRuntime(kind) : kind \in {"sexp", "seval"}}
    /\ frames = <<>>
    /\ stack = <<>>
    /\ lastDef = NoDef
    /\ evRun = NoRun
    /\ path = "none"
    /\ cenv = <<>>
    /\ objHist = NoRun
    /\ opRun = NoRun
    /\ parseRun = NoRun
    /\ calc = <<>>
    /\ calcTrace = <<>>
    /\ loopRun = NoRun
    /\ tokRun = NoRun

\* the embedder's call begins: what the last call left is cleared
Begin(s, call) ==
    [s EXCEPT !.threw = FALSE, !.failed = FALSE, !.lastError = "", !.call = call,
              !.pre = [env |-> s.env, dataModel |-> s.dataModel, version |-> s.version,
                       loaded |-> s.loaded],
              !.calls = @ + 1]

\* runtime.loadCode(code)
LoadCode(program) ==
    /\ rt.loads < MaxLoads
    /\ rt.calls < MaxCalls
    /\ Writable(rt.kind, program)
    /\ \E s \in {[Begin(rt, [op |-> "loadCode", program |-> program])
                     EXCEPT !.loads = @ + 1, !.program = program]} :
           rt' = IF rt.kind = "sexp" THEN SExpLoadCode(s, SExpCode(program))
                 ELSE SevalLoadCode(s, SevalCode(program))
    /\ UNCHANGED <<evalVars, objVars, opRun, parseRun, calcVars, loopRun, tokRun>>

\* runtime.handleAction(name, context)
HandleAction(name, context) ==
    /\ rt.calls < MaxCalls
    /\ \E s \in {Begin(rt, [op |-> "handleAction", name |-> name, context |-> context])} :
           rt' = IF rt.kind = "sexp" THEN SExpHandleAction(s, name, context)
                 ELSE SevalHandleAction(s, name, context)
    /\ UNCHANGED <<evalVars, objVars, opRun, parseRun, calcVars, loopRun, tokRun>>

NextBridge ==
    \/ \E program \in BridgePrograms : LoadCode(program)
    \/ \E name \in ActionNames : HandleAction(name, <<>>)
    \/ \E text \in InputPaths, value \in InputValues :
           HandleAction(InputBinding, [path |-> Str(text), value |-> value])

SpecBridge == InitBridge /\ [][NextBridge]_vars

\* the last call of the embedder
LastCall(op) == rt.call # NoRun /\ rt.call.op = op

\* the i-th handler name of the action go is bound to a function
Bound(i) ==
    /\ HandlerNames("go")[i] \in DOMAIN rt.pre.env
    /\ rt.pre.env[HandlerNames("go")[i]].t \in {"lambda", "function"}

\* the i-th handler of the action go has run: its mark is in the data model
Ran(i) == Join(RanKey(i)) \in DOMAIN rt.dataModel

\* C12: handleAction(name, context) invokes the first of action:<name>,
\* action_<name>, <name> that is bound to a function, and only that one.
C12_FirstBoundHandlerRuns ==
    (LastCall("handleAction") /\ rt.call.name = "go") =>
        \A i \in 1..3 : Ran(i) <=> (Bound(i) /\ \A j \in 1..(i - 1) : ~Bound(j))

\* C13: when no handler name of the action is bound to a function,
\* handleAction returns normally and leaves the data model and the version
\* as they were.
C13_NoHandlerIsNoOp ==
    (LastCall("handleAction") /\ rt.call.name = "go" /\ \A i \in 1..3 : ~Bound(i)) =>
        /\ ~rt.threw
        /\ rt.dataModel = rt.pre.dataModel
        /\ rt.version = rt.pre.version

\* the steps the failed call was running, for a call that runs steps
FailedSteps ==
    IF rt.program = NoRun \/ ~rt.failed \/ rt.call = NoRun THEN <<>>
    ELSE IF rt.kind = "sexp" /\ rt.call.op = "loadCode" THEN rt.program.steps
    ELSE IF rt.kind = "seval" /\ rt.call.op = "handleAction" /\ rt.call.name = "run"
    THEN rt.program.steps
    ELSE <<>>

\* the step that failed: the first call of the undefined function
FailurePoint == CHOOSE i \in 1..Len(FailedSteps) :
                    /\ FailedSteps[i].op = "fail"
                    /\ \A j \in 1..(i - 1) : FailedSteps[j].op # "fail"

\* what the steps write to: baseEnv for top-level defines, the surface data
\* model for set
SharedStore(s) == IF rt.kind = "sexp" THEN s.env ELSE s.dataModel

WrittenBefore(i) == {Join(FailedSteps[j].name) : j \in 1..(i - 1)}

C15_FailureReachesCaller ==
    (rt.call # NoRun /\ rt.failed) => rt.threw

RECURSIVE GetSegments(_, _)
\* the loop of getNestedValue
GetSegments(cursor, segments) ==
    IF segments = <<>> THEN cursor
    ELSE IF cursor.t \in {"null", "undef"} THEN Null
    ELSE GetSegments(SegmentOf(cursor, Head(segments)), Tail(segments))

\* getNestedValue(data, path)
GetNestedValue(data, key) ==
    IF \A i \in 1..Len(key) : key[i] # "/" THEN Prop(data, Join(key))
    ELSE GetSegments(Object(data), Segments(key))

\* C16: handleAction('__inputBinding', {path, value}) writes value at the
\* path, increments the version once and changes nothing else of the data
\* model.
C16_InputBindingWritesPath ==
    (LastCall("handleAction") /\ rt.call.name = InputBinding) =>
        LET key  == StripLeadingSlash(rt.call.context["path"].v)
            root == Join(Head(Segments(key)))
        IN  /\ GetNestedValue(rt.dataModel, key) = rt.call.context["value"]
            /\ rt.version = rt.pre.version + 1
            /\ DOMAIN rt.dataModel = DOMAIN rt.pre.dataModel \cup {root}
            /\ \A other \in DOMAIN rt.dataModel \ {root} :
                   rt.dataModel[other] = rt.pre.dataModel[other]
            /\ (Len(Segments(key)) = 2 /\ Prop(rt.pre.dataModel, root).t = "object") =>
                   \A other \in DOMAIN rt.pre.dataModel[root].v \ {Join(Segments(key)[2])} :
                       Prop(rt.dataModel[root].v, other) = rt.pre.dataModel[root].v[other]

(***************************************************************************)
(* Specification SpecArrow: parseProgram on sources with candidates for    *)
(* the parameter list of an arrow function, followed by `=>` or not.       *)
(***************************************************************************)
ArrowSources ==
    [arrow1      |-> AsProperty(<<"IDENTIFIER", "ARROW", "IDENTIFIER", "STAR", "NUMBER">>),
     arrow2      |-> AsProperty(<<"LPAREN", "IDENTIFIER", "COMMA", "IDENTIFIER", "RPAREN",
                                  "ARROW", "IDENTIFIER", "PLUS", "IDENTIFIER">>),
     arrow0      |-> AsProperty(<<"LPAREN", "RPAREN", "ARROW", "NUMBER">>),
     ident       |-> AsProperty(<<"IDENTIFIER">>),
     group       |-> AsProperty(<<"LPAREN", "IDENTIFIER", "RPAREN">>),
     groupsum    |-> AsProperty(<<"LPAREN", "IDENTIFIER", "PLUS", "IDENTIFIER", "RPAREN">>),
     groupplus   |-> AsProperty(<<"LPAREN", "IDENTIFIER", "RPAREN", "PLUS", "NUMBER">>),
     nested      |-> AsProperty(<<"IDENTIFIER", "ARROW", "LPAREN", "IDENTIFIER", "RPAREN",
                                  "ARROW", "IDENTIFIER">>),
     argument    |-> AsProperty(<<"IDENTIFIER", "LPAREN", "IDENTIFIER", "ARROW",
                                  "IDENTIFIER", "RPAREN">>),
     element     |-> AsProperty(<<"LBRACKET", "IDENTIFIER", "ARROW", "IDENTIFIER",
                                  "RBRACKET">>),
     value       |-> AsMethod(<<"IDENTIFIER", "ASSIGN", "IDENTIFIER", "ARROW", "IDENTIFIER">>),
     operand     |-> AsProperty(<<"NUMBER", "PLUS", "IDENTIFIER", "ARROW", "NUMBER">>),
     parenoperand |-> AsProperty(<<"NUMBER", "PLUS", "LPAREN", "IDENTIFIER", "RPAREN", "ARROW",
                                   "NUMBER">>),
     branch      |-> AsProperty(<<"IDENTIFIER", "QUESTION", "IDENTIFIER", "ARROW", "NUMBER",
                                  "COLON", "NUMBER">>),
     parenbranch |-> AsProperty(<<"IDENTIFIER", "QUESTION", "LPAREN", "IDENTIFIER", "RPAREN",
                                  "ARROW", "NUMBER", "COLON", "NUMBER">>)]

RECURSIVE ListFrom(_, _, _)
\* the identifier list that goes on at token i, the parameters before it
\* known: where it ends (0 when it is not a list) and its parameters
ListFrom(ts, i, params) ==
    IF ts[i] = "RPAREN" THEN [end |-> i + 1, params |-> params]
    ELSE IF ts[i] = "COMMA" /\ ts[i + 1] = "IDENTIFIER"
    THEN ListFrom(ts, i + 2, Append(params, i + 1))
    ELSE [end |-> 0, params |-> params]

\* the candidates of a token sequence: every identifier, and every
\* parenthesised comma-separated list of identifiers; at is where the
\* candidate starts, end the token that follows it
Candidates(ts) ==
    {[at |-> i, params |-> <<i>>, end |-> i + 1] : i \in {j \in 1..Len(ts) : ts[j] = "IDENTIFIER"}}
    \cup {[at |-> i,
           params |-> IF ts[i + 1] = "RPAREN" THEN <<>> ELSE ListFrom(ts, i + 2, <<i + 1>>).params,
           end |-> IF ts[i + 1] = "RPAREN" THEN i + 2 ELSE ListFrom(ts, i + 2, <<i + 1>>).end] :
              i \in {j \in 1..Len(ts) :
                        /\ ts[j] = "LPAREN"
                        /\ \/ ts[j + 1] = "RPAREN"
                           \/ ts[j + 1] = "IDENTIFIER" /\ ListFrom(ts, j + 2, <<j + 1>>).end # 0}}

\* a candidate followed by `=>` starts at the next significant token
ArrowFollows(s) ==
    \E cand \in Candidates(s.tokens) :
        /\ cand.at = SkipNewlines(s.tokens, s.pos)
        /\ s.tokens[cand.end] = "ARROW"

InitArrow ==
    /\ parseRun \in {NewParser(shape, 0, ArrowSources[shape]) : shape \in DOMAIN ArrowSources}
    /\ frames = <<>>
    /\ stack = <<>>
    /\ lastDef = NoDef
    /\ evRun = NoRun
    /\ path = "none"
    /\ cenv = <<>>
    /\ objHist = NoRun
    /\ opRun = NoRun
    /\ calc = <<>>
    /\ calcTrace = <<>>
    /\ loopRun = NoRun
    /\ rt = NoRun
    /\ tokRun = NoRun

NextArrow ==
    \/ ParseProgram
    \/ ParseFunctionBody
    \/ ParseStatement
    \/ ParseExpression
    \/ ParseAssignment
    \/ ParseTernary
    \/ ParseBinary
    \/ ParseUnary
    \/ ParsePostfix
    \/ ParsePrimary

SpecArrow == InitArrow /\ [][NextArrow]_vars

\* C17: when the parse is over, a candidate followed by `=>` has been parsed
\* as an arrow function with the candidate's parameters, a candidate not
\* followed by it has not, and the source (x) has been accepted.
C17_ArrowIffArrowToken ==
    (parseRun # NoRun /\ parseRun.stk = <<>>) =>
        /\ \A cand \in Candidates(parseRun.tokens) :
               IF parseRun.tokens[cand.end] = "ARROW"
               THEN \E i \in 1..Len(parseRun.arrows) :
                        parseRun.arrows[i] = [at |-> cand.at, params |-> cand.params]
               ELSE \A i \in 1..Len(parseRun.arrows) : parseRun.arrows[i].at # cand.at
        /\ parseRun.shape = "group" => parseRun.err = ""

\* C18: a speculation that is abandoned leaves the parser as it found it: the
\* step goes on from the unchanged state, parseAssignment with parseTernary
\* and parsePrimary with the grouped expression.
C18_AbandonedSpeculationRestores ==
    [][(/\ parseRun # NoRun
        /\ parseRun.stk # <<>>
        /\ Frame(parseRun).at = 0
        /\ Peek(parseRun) \in {"IDENTIFIER", "LPAREN"}
        /\ ~ArrowFollows(parseRun))
       => /\ Frame(parseRun).fn = "parseAssignment" =>
                 parseRun' = Call(parseRun, 2, "parseTernary", 0)
          /\ (Frame(parseRun).fn = "parsePrimary" /\ Peek(parseRun) = "LPAREN") =>
                 parseRun' = Call(Advance(parseRun), 3, "parseExpression", 0)
          /\ (Frame(parseRun).fn = "parsePrimary" /\ Peek(parseRun) = "IDENTIFIER") =>
                 parseRun' = Ret(Advance(parseRun), "Identifier")]_vars

\* parseAssignment has given up the speculation on a parenthesised identifier
\* and called parseTernary with the cursor on the parenthesis
C18_SpeculationAbandoned ==
    /\ parseRun # NoRun
    /\ Len(parseRun.stk) >= 2
    /\ Frame(parseRun) = [fn |-> "parseTernary", at |-> 0, x |-> 0]
    /\ parseRun.stk[Len(parseRun.stk) - 1].fn = "parseAssignment"
    /\ parseRun.tokens[parseRun.pos] = "LPAREN"
    /\ parseRun.tokens[parseRun.pos + 1] = "IDENTIFIER"
    /\ parseRun.tokens[parseRun.pos + 2] = "RPAREN"
    /\ parseRun.tokens[parseRun.pos + 3] # "ARROW"

(***************************************************************************)
(* Specification SpecTarget: a method whose body is one assignment,        *)
(* `{ calculate() { <left side> = x } }`, given to the host parser and to  *)
(* the parser of compiler.sexp.                                            *)
(***************************************************************************)
LeftSides == {"literal", "call", "sum", "identifier", "member"}

TargetSource(left) ==
    LET name(n)   == Lexeme("IDENTIFIER", "Identifier", Sym(n))
        lparen    == Lexeme("LPAREN", "LeftParen", Sym("("))
        rparen    == Lexeme("RPAREN", "RightParen", Sym(")"))
        lbrace    == Lexeme("LBRACE", "LeftBrace", Sym("{"))
        rbrace    == Lexeme("RBRACE", "RightBrace", Sym("}"))
        side      == CASE left = "literal" -> <<Lexeme("NUMBER", "Number", Num(1))>>
                       [] left = "call" -> <<name("f"), lparen, rparen>>
                       [] left = "sum" -> <<lparen, name("a"), Lexeme("PLUS", "Plus", Sym("+")),
                                            name("b"), rparen>>
                       [] left = "identifier" -> <<name("y")>>
                       [] left = "member" -> <<name("o"), Lexeme("DOT", "Dot", Sym(".")),
                                               name("y")>>
    IN  <<lbrace, name("calculate"), lparen, rparen, lbrace>>
        \o side
        \o <<Lexeme("ASSIGN", "Unknown", Sym("=")), name("x"),
             rbrace, rbrace, Lexeme("EOF", "EOF", Sym(""))>>

\* the left side is an identifier or a member expression
ValidTarget(left) == left \in {"identifier", "member"}

InitTarget ==
    /\ \E left \in LeftSides :
           /\ parseRun = NewParser(left, 0, HostTokens(TargetSource(left)))
           /\ loopRun = [form |-> left, k |-> 0, resA |-> NoRun, resB |-> NoRun]
    /\ frames = <<>>
    /\ stack = <<>>
    /\ lastDef = NoDef
    /\ evRun = NoRun
    /\ path = "none"
    /\ cenv = <<>>
    /\ objHist = NoRun
    /\ opRun = NoRun
    /\ calc = <<>>
    /\ calcTrace = <<>>
    /\ rt = NoRun
    /\ tokRun = NoRun

\* (parse src) of compiler.sexp on the source: the compiler has no way to
\* report an error, so a parse either returns a tree or never returns, and
\* then the evaluator running it stops at its depth limit
ParseSelfHosted ==
    /\ loopRun.resA = NoRun
    /\ \E parsed \in {SexpParse(SexpTokens(TargetSource(loopRun.form)))} :
           loopRun' = [loopRun EXCEPT
                          !.resA = [ok |-> ~parsed.diverges,
                                    err |-> IF parsed.diverges THEN DepthError ELSE "",
                                    total |-> IF parsed.diverges THEN Undef
                                              ELSE Transform(parsed.node)]]
    /\ UNCHANGED <<evalVars, objVars, opRun, parseRun, calcVars, rt, tokRun>>

NextTarget ==
    \/ ParseProgram
    \/ ParseFunctionBody
    \/ ParseStatement
    \/ ParseAssignment
    \/ ParseTernary
    \/ ParseBinary
    \/ ParseUnary
    \/ ParsePostfix
    \/ ParsePrimary
    \/ ParseExpression
    \/ ParseSelfHosted
    \/ CompileSeval

SpecTarget == InitTarget /\ [][NextTarget]_vars

InvalidTargetError == "Invalid assignment target"

\* C19: a source whose left side of `=` is neither an identifier nor a member
\* expression is rejected with the invalid-assignment-target error by the
\* host parser and by the self-hosted compiler.
C19_InvalidTargetRejected ==
    ~ValidTarget(loopRun.form) =>
        /\ loopRun.resB # NoRun => (~loopRun.resB.ok /\ loopRun.resB.err = InvalidTargetError)
        /\ loopRun.resA # NoRun => (~loopRun.resA.ok /\ loopRun.resA.err = InvalidTargetError)

(***************************************************************************)
(* Specification SpecTokenizer: Tokenizer of seval-tokenizer.ts on every   *)
(* source of up to MaxSource characters.                                   *)
(*                                                                         *)
(* tokRun is [source, pos, line, column, tokens, done, thrown, message]:   *)
(* pos is the index of the next character (from 1), tokens the tokens      *)
(* pushed so far, each [type, value, line, column]; done says tokenize has  *)
(* ended, thrown that it ended by throwing, and then tokens is not         *)
(* returned.                                                               *)
(***************************************************************************)
MaxSource == 4

\* a letter, a digit, the two quotes, the backslash, a blank, a line break,
\* an operator character and a character no token starts with
SourceChars == {"a", "1", "\"", "'", "\\", " ", "\n", "=", "#"}

Sources == UNION {[1..n -> SourceChars] : n \in 0..MaxSource}

\* peek(offset)
PeekChar(s, offset) ==
    IF s.pos + offset <= Len(s.source) THEN s.source[s.pos + offset] ELSE ""

\* advance()
AdvanceChar(s) ==
    [s EXCEPT !.pos = @ + 1,
              !.line = IF PeekChar(s, 0) = "\n" THEN @ + 1 ELSE @,
              !.column = IF PeekChar(s, 0) = "\n" THEN 1 ELSE @ + 1]

AtEnd(s) == s.pos > Len(s.source)

RECURSIVE SkipLine(_)
\* while (pos < length && peek() !== '\n') advance()
SkipLine(s) == IF AtEnd(s) \/ PeekChar(s, 0) = "\n" THEN s ELSE SkipLine(AdvanceChar(s))

RECURSIVE SkipWhitespace(_)
SkipWhitespace(s) ==
    IF AtEnd(s) THEN s
    ELSE IF PeekChar(s, 0) \in {" ", "\t", "\r"} THEN SkipWhitespace(AdvanceChar(s))
    ELSE IF PeekChar(s, 0) = "/" /\ PeekChar(s, 1) = "/"
    THEN SkipWhitespace(SkipLine(AdvanceChar(AdvanceChar(s))))
    ELSE s

Token(type, value, line, column) ==
    [type |-> type, value |-> value, line |-> line, column |-> column]

\* the token starts where s stands and ends where t stands
Push(s, t, type, value) ==
    [t EXCEPT !.tokens = Append(@, Token(type, value, s.line, s.column))]

Letters == {"a", "_"}

DigitChars == {Digits[i] : i \in 1..Len(Digits)}

RECURSIVE WhileIn(_, _)
\* while (pos < length && peek() is in chars) advance()
WhileIn(s, chars) ==
    IF AtEnd(s) \/ PeekChar(s, 0) \notin chars THEN s ELSE WhileIn(AdvanceChar(s), chars)

\* source.slice(start, pos)
Slice(s, t) == SubSeq(s.source, s.pos, t.pos - 1)

ReadNumber(s) ==
    LET t == WhileIn(s, DigitChars \cup {"."}) IN Push(s, t, "NUMBER", Slice(s, t))

Keywords ==
    ("true" :> "TRUE") @@ ("false" :> "FALSE") @@ ("null" :> "NULL") @@ ("if" :> "IF")
    @@ ("elif" :> "ELIF") @@ ("else" :> "ELSE") @@ ("for" :> "FOR")

ReadIdentifier(s) ==
    LET t     == WhileIn(s, Letters \cup DigitChars)
        value == Slice(s, t)
    IN  Push(s, t, IF Join(value) \in DOMAIN Keywords THEN Keywords[Join(value)]
                   ELSE "IDENTIFIER", value)

\* the switch of readString on the character after a backslash
Escape(next) ==
    CASE next = "n" -> <<"\n">>
      [] next = "t" -> <<"\t">>
      [] next = "r" -> <<"\r">>
      [] next = "" -> <<>>
      [] next \notin {"n", "t", "r", ""} -> <<next>>

RECURSIVE StringLoop(_, _, _)
\* the while loop of readString: [s, value] when it is left, by the closing
\* quote or by the end of the source
StringLoop(s, quote, value) ==
    IF AtEnd(s) THEN [s |-> s, value |-> value]
    ELSE IF PeekChar(s, 0) = quote THEN [s |-> AdvanceChar(s), value |-> value]
    ELSE IF PeekChar(s, 0) = "\\"
    THEN StringLoop(AdvanceChar(AdvanceChar(s)), quote,
                    value \o Escape(PeekChar(AdvanceChar(s), 0)))
    ELSE StringLoop(AdvanceChar(s), quote, value \o <<PeekChar(s, 0)>>)

ReadString(s, quote) ==
    LET r == StringLoop(AdvanceChar(s), quote, <<>>)
    IN  Push(s, r.s, "STRING", r.value)

\* the operators of two and three characters, longest first
Operators ==
    <<[text |-> <<"=", "=", "=">>, type |-> "STRICT_EQ"],
      [text |-> <<"!", "=", "=">>, type |-> "STRICT_NE"],
      [text |-> <<"=", "=">>, type |-> "EQ"],
      [text |-> <<"!", "=">>, type |-> "NE"],
      [text |-> <<"<", "=">>, type |-> "LE"],
      [text |-> <<">", "=">>, type |-> "GE"],
      [text |-> <<"&", "&">>, type |-> "AND"],
      [text |-> <<"|", "|">>, type |-> "OR"],
      [text |-> <<"=", ">">>, type |-> "ARROW"]>>

SingleCharacter ==
    ("+" :> "PLUS") @@ ("-" :> "MINUS") @@ ("*" :> "STAR") @@ ("/" :> "SLASH")
    @@ ("%" :> "PERCENT") @@ ("<" :> "LT") @@ (">" :> "GT") @@ ("!" :> "NOT")
    @@ ("=" :> "ASSIGN") @@ ("?" :> "QUESTION") @@ (":" :> "COLON") @@ ("(" :> "LPAREN")
    @@ (")" :> "RPAREN") @@ ("{" :> "LBRACE") @@ ("}" :> "RBRACE") @@ ("[" :> "LBRACKET")
    @@ ("]" :> "RBRACKET") @@ ("," :> "COMMA") @@ ("." :> "DOT") @@ (";" :> "SEMICOLON")

RECURSIVE AdvanceBy(_, _)
AdvanceBy(s, n) == IF n = 0 THEN s ELSE AdvanceBy(AdvanceChar(s), n - 1)

StartsWith(s, text) == \A i \in 1..Len(text) : PeekChar(s, i - 1) = text[i]

\* next() after skipWhitespace, the token pushed by tokenize
NextFrom(s) ==
    LET ch   == PeekChar(s, 0)
        long == {i \in 1..Len(Operators) : StartsWith(s, Operators[i].text)}
        op   == Operators[CHOOSE i \in long : \A j \in long : i <= j]
    IN  IF AtEnd(s) THEN Push(s, s, "EOF", <<>>)
        ELSE IF ch = "\n" THEN Push(s, AdvanceChar(s), "NEWLINE", <<"\n">>)
        ELSE IF ch \in DigitChars THEN ReadNumber(s)
        ELSE IF ch \in {"\"", "'"} THEN ReadString(s, ch)
        ELSE IF ch \in Letters THEN ReadIdentifier(s)
        ELSE IF long # {} THEN Push(s, AdvanceBy(s, Len(op.text)), op.type, op.text)
        ELSE IF ch \in DOMAIN SingleCharacter
        THEN Push(s, AdvanceChar(s), SingleCharacter[ch], <<ch>>)
        ELSE [AdvanceChar(s) EXCEPT !.done = TRUE, !.thrown = TRUE,
                                    !.message = [what |-> "Unexpected character",
                                                 line |-> s.line, column |-> s.column]]

\* new Tokenizer(source)
NewTokenizer(source) ==
    [source |-> source, pos |-> 1, line |-> 1, column |-> 1, tokens |-> <<>>,
     done |-> FALSE, thrown |-> FALSE, message |-> NoRun]

InitTokenizer ==
    /\ tokRun \in {NewTokenizer(source) : source \in Sources}
    /\ frames = <<>>
    /\ stack = <<>>
    /\ lastDef = NoDef
    /\ evRun = NoRun
    /\ path = "none"
    /\ cenv = <<>>
    /\ objHist = NoRun
    /\ opRun = NoRun
    /\ parseRun = NoRun
    /\ calc = <<>>
    /\ calcTrace = <<>>
    /\ loopRun = NoRun
    /\ rt = NoRun

IsLastAny(token) == TRUE

\* if (token.type === TokenType.EOF) break
IsLast(token) == token.type = "EOF"

\* one turn of the loop of tokenize(): next(), the token pushed, and the
\* loop left on the end token
NextToken ==
    /\ ~tokRun.done
    /\ \E t \in {NextFrom(SkipWhitespace(tokRun))} :
           tokRun' = IF ~t.thrown /\ IsLast(t.tokens[Len(t.tokens)])
                     THEN [t EXCEPT !.done = TRUE] ELSE t
    /\ UNCHANGED <<evalVars, objVars, opRun, parseRun, calcVars, loopRun, rt>>

SpecTokenizer == InitTokenizer /\ [][NextToken]_vars

\* the positions of the quote characters of a source
QuotesAt(source, quote) == {i \in 1..Len(source) : source[i] = quote}

\* the source has a string literal that is never closed: it has an odd
\* number of quotes of one kind and, outside of them, only letters, digits,
\* blanks, line breaks and operator characters
UnterminatedString(source) ==
    \E quote \in {"\"", "'"} :
        /\ Cardinality(QuotesAt(source, quote)) % 2 = 1
        /\ \A i \in 1..Len(source) : source[i] \in {quote, "a", "1", " ", "\n", "="}

\* where the string that is never closed starts: at the last quote
StringStart(source) ==
    LET last == CHOOSE i \in 1..Len(source) :
                    /\ source[i] \in {"\"", "'"}
                    /\ \A j \in (i + 1)..Len(source) : source[j] \notin {"\"", "'"}
        line == 1 + Cardinality({j \in 1..(last - 1) : source[j] = "\n"})
    IN  [line |-> line,
         column |-> last - (CHOOSE j \in 0..(last - 1) :
                               /\ j = 0 \/ source[j] = "\n"
                               /\ \A k \in (j + 1)..(last - 1) : source[k] # "\n")]

\* C20: tokenize of a source with a string literal that is never closed ends
\* by throwing an error that names the position where the string starts; it
\* returns no tokens.
C20_UnterminatedStringFails ==
    (tokRun # NoRun /\ tokRun.done /\ UnterminatedString(tokRun.source)) =>
        /\ tokRun.thrown
        /\ tokRun.message.line = StringStart(tokRun.source).line
        /\ tokRun.message.column = StringStart(tokRun.source).column

(***************************************************************************)
(* Specification SpecRef: the environment chain of SpecEnv, with           *)
(* references to variables evaluated in it.                                *)
(***************************************************************************)
\* evalExpr of the symbol name in the current environment, and
\* Interpreter.evaluate of the identifier name where the current frame is the
\* local environment and the root frame the global one
EvalReference(name) ==
    /\ \E r \in {EvalExpr(Sym(name), Top, Len(stack) - 1, EnvSt)},
          i \in {InterpEvaluate(Identifier(name), frames[Top].b, frames[1].b)} :
           evRun' = [kind |-> "reference", name |-> name, env |-> Top,
                     bound |-> FindBinding(frames, Top, name) # NoEnv,
                     sexp |-> [ok |-> r.ok, val |-> r.val],
                     interp |-> [ok |-> i.ok, val |-> i.val]]
    /\ UNCHANGED <<frames, stack, lastDef, path, cenv, objHist, opRun, parseRun, calc,
                   calcTrace, bridgeVars>>

NextRef ==
    \/ \E n \in VarNames, v \in DefValues : EvalDefine(n, v)
    \/ EvalDefun
    \/ \E v \in DefValues : CallLambda(v)
    \/ EnterLet
    \/ Return
    \/ \E n \in VarNames : EvalReference(n)

SpecRef == InitEnv /\ [][NextRef]_vars

\* C21: a reference to a variable bound in no frame of the chain fails the
\* evaluation, under the expression evaluator and under the Interpreter.
C21_UnboundReferenceFails ==
    (evRun # NoRun /\ evRun.kind = "reference" /\ ~evRun.bound) =>
        /\ ~evRun.sexp.ok
        /\ ~evRun.interp.ok


\* ---------------------------------------------------------------------
\* Statement separators of a function body (parseFunctionBody, peek and
\* advance of the host Parser)

\* the statement written before the separator
FirstStatements ==
    {<<"IDENTIFIER", "ASSIGN", "NUMBER">>, <<"IDENTIFIER">>,
     <<"IDENTIFIER", "LPAREN", "NUMBER", "RPAREN">>}

\* the statement written after it, by the token its line starts with
SecondStatements ==
    {<<"IDENTIFIER", "ASSIGN", "NUMBER">>, <<"NUMBER">>, <<"STRING">>,
     <<"NOT", "IDENTIFIER">>, <<"MINUS", "IDENTIFIER">>,
     <<"LPAREN", "IDENTIFIER", "RPAREN">>, <<"LBRACKET", "NUMBER", "RBRACKET">>,
     <<"IF", "IDENTIFIER", "LBRACE", "NUMBER", "RBRACE">>}

Separators == {"NEWLINE", "SEMICOLON"}

\* one statement written over several lines: inside parentheses, brackets,
\* an argument list, and after a binary operator
ContinuedStatements ==
    {<<"LPAREN", "NEWLINE", "IDENTIFIER", "NEWLINE", "RPAREN">>,
     <<"LBRACKET", "NEWLINE", "NUMBER", "COMMA", "NEWLINE", "NUMBER", "NEWLINE", "RBRACKET">>,
     <<"IDENTIFIER", "LPAREN", "NEWLINE", "NUMBER", "COMMA", "NEWLINE", "NUMBER", "NEWLINE",
       "RPAREN">>,
     <<"IDENTIFIER", "PLUS", "NEWLINE", "NUMBER">>,
     <<"IDENTIFIER", "ASSIGN", "NUMBER", "STAR", "NEWLINE", "NEWLINE", "IDENTIFIER">>}

\* where the statements of AsMethod(ts) begin
BodyStart == Len(MethodHead) + 1

InitBlock ==
    /\ parseRun \in
          {NewParser("separated", BodyStart + Len(first) + 1,
                     AsMethod(first \o <<sep>> \o second)) :
              first \in FirstStatements, sep \in Separators, second \in SecondStatements}
          \cup {NewParser("continued", 0, AsMethod(ts)) : ts \in ContinuedStatements}
    /\ frames = <<>>
    /\ stack = <<>>
    /\ lastDef = NoDef
    /\ evRun = NoRun
    /\ path = "none"
    /\ cenv = <<>>
    /\ objHist = NoRun
    /\ opRun = NoRun
    /\ calc = <<>>
    /\ calcTrace = <<>>
    /\ loopRun = NoRun
    /\ rt = NoRun
    /\ tokRun = NoRun

NextBlock ==
    \/ ParseProgram
    \/ ParseFunctionBody
    \/ ParseStatement
    \/ ParseIfStatement
    \/ ParseElseOrElif
    \/ ParseExpression
    \/ ParseAssignment
    \/ ParseTernary
    \/ ParseBinary
    \/ ParseUnary
    \/ ParsePostfix
    \/ ParsePrimary

SpecBlock == InitBlock /\ [][NextBlock]_vars

\* C22: when the parse is over, the tokens after a newline or semicolon
\* between two statements of a block are a statement of their own, and a
\* statement written over several lines inside parentheses, brackets, an
\* argument list or after a binary operator is one statement.
C22_SeparatorEndsStatement ==
    (parseRun # NoRun /\ parseRun.stk = <<>>) =>
        /\ parseRun.err = ""
        /\ parseRun.shape = "separated" =>
               Len(parseRun.starts) >= 2 /\ parseRun.starts[2] = parseRun.k
        /\ parseRun.shape = "continued" => parseRun.starts = <<BodyStart>>

\* the parse is over for two statements separated by a semicolon
C22_SemicolonSeparates ==
    /\ parseRun # NoRun /\ parseRun.stk = <<>> /\ parseRun.err = ""
    /\ parseRun.shape = "separated"
    /\ parseRun.tokens[parseRun.k - 1] = "SEMICOLON"
    /\ Len(parseRun.starts) >= 2 /\ parseRun.starts[2] = parseRun.k

\* ---------------------------------------------------------------------
\* Loop-function names of Backend A (gensym-counter, next-gensym and
\* transform-for-statement of compiler.sexp)

GensymCounter == "gensym-counter"

ForLoopPrefix == "__for_loop"

\* the environment the compiler source is loaded into, after
\* (define gensym-counter 0)
CompilerEnv ==
    [frames |-> <<[parent |-> NoEnv, b |-> (GensymCounter :> Num(0))]>>,
     maxDepth |-> BackendAMaxDepth, mdr |-> 0]

\* (next-gensym prefix): the closure of the compiler's environment called
\* by the evaluator, its define of the counter included; concat and str put
\* the decimal digits of the counter after the prefix
NextGensym(prefix, st) ==
    Bind(EvalLambda(Lambda(<<"prefix">>,
                           List(<<Sym("progn"),
                                  List(<<Sym("define"), Sym(GensymCounter),
                                         List(<<Sym("+"), Sym(GensymCounter), Num(1)>>)>>),
                                  Sym(GensymCounter)>>),
                           1),
                    <<Str(<<prefix>>)>>, 0, st), LAMBDA r :
        [name |-> Join(<<prefix>> \o ToStr(r.val)), counter |-> r.val, st |-> r.st])

RECURSIVE TransformFrom(_, _), TransformAll(_, _)

\* (map transform nodes), the compiler's environment handed on: the
\* lowered forms, the names allocated, the environment afterwards
TransformAll(nodes, st) ==
    IF nodes = <<>> THEN [sexps |-> <<>>, gensyms |-> <<>>, st |-> st]
    ELSE Bind(TransformFrom(Head(nodes), st), LAMBDA first :
             Bind(TransformAll(Tail(nodes), first.st), LAMBDA rest :
                 [sexps |-> <<first.sexp>> \o rest.sexps,
                  gensyms |-> first.gensyms \o rest.gensyms, st |-> rest.st]))

\* (transform ast) in a compiler environment in which earlier for
\* statements may have been lowered: the let of transform-for-statement
\* takes the name before init, test, body and update are transformed
TransformFrom(ast, st) ==
    CASE ast.kind = "ForStatement" ->
            Bind(NextGensym(ForLoopPrefix, st), LAMBDA loop :
                Bind(TransformAll(<<ast.init, ast.test, ast.body, ast.update>>, loop.st),
                     LAMBDA parts :
                    [sexp |-> List(<<Sym("progn"),
                                     parts.sexps[1],
                                     List(<<Sym("define"), List(<<Sym(loop.name)>>),
                                            List(<<Sym("if"), parts.sexps[2],
                                                   List(<<Sym("progn"), parts.sexps[3],
                                                          parts.sexps[4],
                                                          List(<<Sym(loop.name)>>)>>),
                                                   Null>>)>>),
                                     List(<<Sym(loop.name)>>)>>),
                     gensyms |-> <<[name |-> loop.name, counter |-> loop.counter]>>
                                     \o parts.gensyms,
                     st |-> parts.st]))
      [] ast.kind = "BlockExpression" ->
            Bind(TransformAll(ast.statements, st), LAMBDA parts :
                [sexp |-> List(<<Sym("progn")>> \o parts.sexps),
                 gensyms |-> parts.gensyms, st |-> parts.st])
      [] OTHER -> [sexp |-> Transform(ast), gensyms |-> <<>>, st |-> st]

\* how many compile-to-sexpr calls one compiler environment serves
MaxCompiles == 4

\* for i = 0; i < 2; i = i + 1 { body }
ForLoop(body) ==
    ForStatement(AssignmentStatement(Identifier("i"), Literal(Num(0))),
                 BinaryExpression("<", Identifier("i"), Literal(Num(2))),
                 AssignmentStatement(Identifier("i"),
                                     BinaryExpression("+", Identifier("i"), Literal(Num(1)))),
                 body)

Count == AssignmentStatement(Identifier("n"),
                             BinaryExpression("+", Identifier("n"), Literal(Num(1))))

\* what the sources parse to: no loop, one loop, nested loops, loops in
\* sequence, and both
ForPrograms ==
    {Count,
     ForLoop(Count),
     ForLoop(ForLoop(Count)),
     ForLoop(ForLoop(ForLoop(Count))),
     BlockExpression(<<ForLoop(Count), ForLoop(Count)>>),
     BlockExpression(<<ForLoop(ForLoop(Count)), Count, ForLoop(Count)>>),
     ForLoop(BlockExpression(<<ForLoop(Count), ForLoop(Count)>>))}

\* loadMiniJSCompiler
InitGensym ==
    /\ loopRun = [kind |-> "compiler", st |-> CompilerEnv, compiles |-> 0,
                  gensyms |-> <<>>, out |-> Null]
    /\ frames = <<>>
    /\ stack = <<>>
    /\ lastDef = NoDef
    /\ evRun = NoRun
    /\ path = "none"
    /\ cenv = <<>>
    /\ objHist = NoRun
    /\ opRun = NoRun
    /\ parseRun = NoRun
    /\ calc = <<>>
    /\ calcTrace = <<>>
    /\ rt = NoRun
    /\ tokRun = NoRun

\* (compile-to-sexpr src) evaluated in the compiler's environment, src
\* parsing to ast; the frames of the calls that have returned are dropped
CompileFor(ast) ==
    /\ loopRun.compiles < MaxCompiles
    /\ \E r \in {TransformFrom(ast, loopRun.st)} :
           loopRun' = [loopRun EXCEPT
                          !.st = [r.st EXCEPT !.frames = <<r.st.frames[1]>>],
                          !.compiles = @ + 1,
                          !.gensyms = @ \o r.gensyms,
                          !.out = r.sexp]
    /\ UNCHANGED <<evalVars, objVars, opRun, parseRun, calcVars, rt, tokRun>>

NextGensymSpec == \E ast \in ForPrograms : CompileFor(ast)

SpecGensym == InitGensym /\ [][NextGensymSpec]_vars

RECURSIVE Rebinds(_, _)
\* some (define (name) ...) of the form lies inside the definition of a
\* function of the same name, the enclosing names given
Rebinds(sexp, enclosing) ==
    IF sexp.t # "list" THEN FALSE
    ELSE IF /\ Len(sexp.v) = 3
            /\ sexp.v[1].t = "sym" /\ sexp.v[1].v = "define"
            /\ sexp.v[2].t = "list"
    THEN \/ sexp.v[2].v[1].v \in enclosing
         \/ Rebinds(sexp.v[3], enclosing \cup {sexp.v[2].v[1].v})
    ELSE \E i \in 1..Len(sexp.v) : Rebinds(sexp.v[i], enclosing)

\* C23: the loop functions lowered in one compiler environment are named
\* by the prefix and a counter that strictly increases from one allocation
\* to the next, so no two of them share a name, and no loop function is
\* defined again inside its own definition.
C23_LoopNamesDistinct ==
    loopRun.kind = "compiler" =>
        /\ \A i \in 1..Len(loopRun.gensyms) :
               /\ loopRun.gensyms[i].name
                      = Join(<<ForLoopPrefix>> \o ToStr(loopRun.gensyms[i].counter))
               /\ \A j \in 1..Len(loopRun.gensyms) :
                      /\ i < j => loopRun.gensyms[i].counter.v < loopRun.gensyms[j].counter.v
                      /\ i # j => loopRun.gensyms[i].name # loopRun.gensyms[j].name
        /\ ~Rebinds(loopRun.out, {})

\* nested and sequential loops have been lowered in a second call on the
\* same compiler environment
C23_NestedLoopsLowered ==
    /\ loopRun.kind = "compiler"
    /\ loopRun.compiles >= 2
    /\ Len(loopRun.gensyms) >= 4
    /\ loopRun.out = TransformFrom(ForLoop(BlockExpression(<<ForLoop(Count), ForLoop(Count)>>)),
                                   [loopRun.st EXCEPT !.frames[1].b[GensymCounter] =
                                       Num(@.v - 3)]).sexp

\* ---------------------------------------------------------------------
\* Assignment to a member target under Backend A (transform-assignment and
\* transform-member-assignment of compiler.sexp, define of the evaluator)

\* the environment the lowered program runs in: the program's frame and
\* the frame of a call in progress
MemberFrames ==
    <<[parent |-> NoEnv,
       b |-> ("o" :> Object(("k" :> Num(1)) @@ ("j" :> Num(2)))) @@
             ("a" :> Object("b" :> Object(("c" :> Num(1)) @@ ("d" :> Num(2))))) @@
             ("key" :> Str(<<"k">>))],
      [parent |-> 1, b |-> ("v" :> Num(0))]>>

\* o.k, o.n (a key o does not have), o[key], o["j"], a.b.c, a.b["d"]
MemberTargets ==
    {MemberExpression(Identifier("o"), "k"),
     MemberExpression(Identifier("o"), "n"),
     ComputedMember(Identifier("o"), Identifier("key")),
     ComputedMember(Identifier("o"), Literal(Str(<<"j">>))),
     MemberExpression(MemberExpression(Identifier("a"), "b"), "c"),
     ComputedMember(MemberExpression(Identifier("a"), "b"), Literal(Str(<<"d">>)))}

AssignedValues == {Num(7)}

\* the maxDepth the evaluator that runs the lowered program is created with
MemberMaxDepth == 12

InitMember ==
    /\ frames = MemberFrames
    /\ stack = <<>>
    /\ lastDef = NoDef
    /\ evRun = NoRun
    /\ path = "none"
    /\ cenv = <<>>
    /\ objHist = NoRun
    /\ opRun = NoRun
    /\ parseRun = NoRun
    /\ calc = <<>>
    /\ calcTrace = <<>>
    /\ loopRun = NoRun
    /\ rt = NoRun
    /\ tokRun = NoRun

\* the value of an evaluation that ended normally, undefined otherwise
ValueOr(r) == IF r.ok THEN r.val ELSE Undef

\* the statement `target = value` lowered and evaluated in env, then the
\* target read back; object is what the target's object expression yields
\* before and after, key the key it is assigned under
AssignMember(target, value, env) ==
    \E st \in {[frames |-> frames, maxDepth |-> MemberMaxDepth, mdr |-> 0]} :
    \E key \in {IF target.kind = "ComputedMember"
                THEN KeyOf(ValueOr(EvalExpr(Transform(target.property), env, 0, st)))
                ELSE target.property},
       was \in {ValueOr(EvalExpr(Transform(target.object), env, 0, st))},
       r \in {EvalExpr(Transform(AssignmentStatement(target, Literal(value))), env, 0, st)} :
    \E now \in {ValueOr(EvalExpr(Transform(target.object), env, 0, r.st))},
       read \in {EvalExpr(Transform(target), env, 0, r.st)} :
        /\ frames' = SubSeq(r.st.frames, 1, Len(frames))
        /\ evRun' = [kind |-> "member", target |-> target, value |-> value, env |-> env,
                     key |-> key, ok |-> r.ok, before |-> frames,
                     object |-> [was |-> was, now |-> now],
                     read |-> [ok |-> read.ok, val |-> ValueOr(read)]]
        /\ UNCHANGED <<stack, lastDef, path, cenv, objHist, opRun, parseRun, calc, calcTrace,
                       bridgeVars>>

NextMember ==
    \E target \in MemberTargets, value \in AssignedValues, env \in 1..Len(MemberFrames) :
        AssignMember(target, value, env)

SpecMember == InitMember /\ [][NextMember]_vars

\* the same value: the same type and the same content
SameValue(x, y) == x.t = y.t /\ x.v = y.v

\* the identifier a member expression starts from
RECURSIVE RootOf(_)
RootOf(node) == IF node.kind = "Identifier" THEN node.name ELSE RootOf(node.object)

\* C24: after an assignment to a member target, reading the target yields
\* the assigned value, the object's other keys are as before, and no
\* binding other than the object's is created or changed.
C24_MemberAssignment ==
    (evRun # NoRun /\ evRun.kind = "member") =>
        /\ evRun.ok
        /\ evRun.read.ok /\ SameValue(evRun.read.val, evRun.value)
        /\ evRun.object.was.t = "object" /\ evRun.object.now.t = "object"
        /\ DOMAIN evRun.object.now.v = DOMAIN evRun.object.was.v \cup {evRun.key}
        /\ \A k \in DOMAIN evRun.object.was.v \ {evRun.key} :
               SameValue(evRun.object.now.v[k], evRun.object.was.v[k])
        /\ \A f \in 1..Len(frames) :
               /\ DOMAIN frames[f].b = DOMAIN evRun.before[f].b
               /\ \A n \in DOMAIN frames[f].b \ {RootOf(evRun.target)} :
                      SameValue(frames[f].b[n], evRun.before[f].b[n])

\* ---------------------------------------------------------------------
\* The higher-order operators of the evaluator given a closure or an
\* expression over the item (evalExpr: filter, map, find, find-index,
\* sort-by, count, reduce and fold)

MaxList == 3

ItemValues == {Num(1), Num(2), Num(3)}

ItemLists == UNION {[1..n -> ItemValues] : n \in 0..MaxList}

\* the function argument of an operator: a closure, or the expression over
\* the item (for reduce and fold, over the two names written before it)
FunctionArg(op, form) ==
    LET x    == IF form = "closure" THEN Sym("x") ELSE Sym("it")
        body == CASE op \in {"filter", "find", "find-index", "count"} ->
                        List(<<Sym(">"), x, Num(1)>>)
                  [] op = "map" -> List(<<Sym("*"), x, Num(2)>>)
                  [] op = "sort-by" -> List(<<Sym("-"), Num(0), x>>)
                  [] op \in {"reduce", "fold"} -> List(<<Sym("+"), Sym("acc"), Sym("x")>>)
    IN  IF op \in {"reduce", "fold"}
        THEN IF form = "closure"
             THEN <<List(<<Sym("lambda"), List(<<Sym("acc"), Sym("x")>>), body>>)>>
             ELSE <<List(<<Sym("acc"), Sym("x")>>), body>>
        ELSE IF form = "closure"
        THEN <<List(<<Sym("lambda"), List(<<x>>), body>>)>>
        ELSE <<body>>

\* the operator applied to the quoted list
HigherOrderCall(op, form, items) ==
    LET list == List(<<Sym("quote"), List(items)>>)
    IN  CASE op \in {"filter", "map"} ->
                List(<<Sym(op)>> \o FunctionArg(op, form) \o <<list>>)
          [] op \in {"reduce", "fold"} ->
                List(<<Sym(op), list, Num(0)>> \o FunctionArg(op, form))
          [] OTHER -> List(<<Sym(op), list>> \o FunctionArg(op, form))

InitHigher ==
    /\ opRun = NoRun
    /\ frames = <<>>
    /\ stack = <<>>
    /\ lastDef = NoDef
    /\ evRun = NoRun
    /\ path = "none"
    /\ cenv = <<>>
    /\ objHist = NoRun
    /\ parseRun = NoRun
    /\ calc = <<>>
    /\ calcTrace = <<>>
    /\ loopRun = NoRun
    /\ rt = NoRun
    /\ tokRun = NoRun

\* createEvaluator().evaluate of the operator's call, in an environment of
\* its own
ApplyOperator(op, form, items) ==
    /\ opRun = NoRun
    /\ \E r \in {EvaluateRoot(HigherOrderCall(op, form, items), DefaultMaxDepth)} :
           opRun' = [kind |-> "higher", op |-> op, form |-> form, items |-> items,
                     ok |-> r.ok, val |-> r.val]
    /\ UNCHANGED <<evalVars, objVars, parseRun, calcVars, bridgeVars>>

NextHigher ==
    \E op \in HigherOrderOps, form \in {"closure", "item"}, items \in ItemLists :
        ApplyOperator(op, form, items)

SpecHigher == InitHigher /\ [][NextHigher]_vars

RECURSIVE SumOf(_)
SumOf(items) == IF items = <<>> THEN 0 ELSE Head(items).v + SumOf(Tail(items))

\* what the operator yields when its function (item > 1, item * 2, the key
\* -item, acc + item) is applied to every item
Applied(op, items) ==
    LET above == SelectSeq(items, LAMBDA x : x.v > 1)
        first == CHOOSE i \in 1..(Len(items) + 1) :
                     /\ i <= Len(items) => items[i].v > 1
                     /\ \A j \in 1..(i - 1) : items[j].v <= 1
    IN  CASE op = "filter" -> List(above)
          [] op = "map" -> List([i \in 1..Len(items) |-> Num(items[i].v * 2)])
          [] op = "find" -> IF above = <<>> THEN Null ELSE Head(above)
          [] op = "find-index" -> IF above = <<>> THEN Num(-1) ELSE Num(first - 1)
          [] op = "sort-by" -> List(SelectSeq(items, LAMBDA x : x.v = 3)
                                    \o SelectSeq(items, LAMBDA x : x.v = 2)
                                    \o SelectSeq(items, LAMBDA x : x.v = 1))
          [] op = "count" -> Num(Len(above))
          [] op \in {"reduce", "fold"} -> Num(SumOf(items))

\* C25: each higher-order operator, given a closure or an expression over
\* the item, yields what applying the function to every item gives.
C25_FunctionApplied ==
    (opRun # NoRun /\ opRun.kind = "higher") =>
        /\ opRun.ok
        /\ opRun.val.t = Applied(opRun.op, opRun.items).t
        /\ opRun.val.v = Applied(opRun.op, opRun.items).v

\* ---------------------------------------------------------------------
\* The self-hosted compile-to-sexpr against the host tokenizer and parser
\* on the same sources: the assignments of SpecTarget and the loops of
\* SpecLoop

RefineSource(form, k) ==
    IF form \in LeftSides THEN TargetSource(form) ELSE LoopSource(form, k)

InitRefine ==
    /\ \E form \in LeftSides \cup {"go", "c"} :
           /\ parseRun = NewParser(form, MaxIter, HostTokens(RefineSource(form, MaxIter)))
           /\ loopRun = [form |-> form, k |-> MaxIter, resA |-> NoRun, resB |-> NoRun]
    /\ frames = <<>>
    /\ stack = <<>>
    /\ lastDef = NoDef
    /\ evRun = NoRun
    /\ path = "none"
    /\ cenv = <<>>
    /\ objHist = NoRun
    /\ opRun = NoRun
    /\ calc = <<>>
    /\ calcTrace = <<>>
    /\ rt = NoRun
    /\ tokRun = NoRun

\* (compile-to-sexpr src): a parse that never returns ends at the depth
\* limit of the evaluator that runs the compiler
CompileSelfHosted ==
    /\ loopRun.resA = NoRun
    /\ \E parsed \in {SexpParse(SexpTokens(RefineSource(loopRun.form, loopRun.k)))} :
           loopRun' = [loopRun EXCEPT
                          !.resA = [ok |-> ~parsed.diverges,
                                    err |-> IF parsed.diverges THEN DepthError ELSE "",
                                    total |-> IF parsed.diverges THEN Undef
                                              ELSE Transform(parsed.node)]]
    /\ UNCHANGED <<evalVars, objVars, opRun, parseRun, calcVars, rt, tokRun>>

NextRefine ==
    \/ ParseProgram
    \/ ParseFunctionBody
    \/ ParseStatement
    \/ ParseAssignment
    \/ ParseTernary
    \/ ParseBinary
    \/ ParseUnary
    \/ ParsePostfix
    \/ ParsePrimary
    \/ ParseExpression
    \/ CompileSelfHosted
    \/ CompileSeval

SpecRefine == InitRefine /\ [][NextRefine]_vars

\* C26: the self-hosted compile-to-sexpr accepts a source exactly when the
\* host tokenizer and parser accept it (the half of the claim that does not
\* need the host's tree).
C26_SameSourcesAccepted ==
    (loopRun.resA # NoRun /\ loopRun.resB # NoRun) => loopRun.resA.ok = loopRun.resB.ok

\* ---------------------------------------------------------------------
\* Termination of tokenize: the loop of tokenize() runs until it breaks or
\* next() throws, so its turn is taken whenever it can be

MaxLiveSource == 3

InitTokenizerLive ==
    /\ tokRun \in {NewTokenizer(source) :
                      source \in UNION {[1..n -> SourceChars] : n \in 0..MaxLiveSource}}
    /\ frames = <<>>
    /\ stack = <<>>
    /\ lastDef = NoDef
    /\ evRun = NoRun
    /\ path = "none"
    /\ cenv = <<>>
    /\ objHist = NoRun
    /\ opRun = NoRun
    /\ parseRun = NoRun
    /\ calc = <<>>
    /\ calcTrace = <<>>
    /\ loopRun = NoRun
    /\ rt = NoRun

SpecTokenizerLive == InitTokenizerLive /\ [][NextToken]_vars /\ WF_vars(NextToken)

\* the tokens of the given type among the tokens pushed
TokensOf(type) == {i \in 1..Len(tokRun.tokens) : tokRun.tokens[i].type = type}

\* C27: every turn of the loop of tokenize consumes a character, throws, or
\* pushes the end token and leaves the loop; tokenize ends; and when it
\* returns, the end token is in the tokens once, as the last of them.
C27_TokenizeTerminates ==
    /\ [][\/ tokRun'.pos > tokRun.pos
          \/ tokRun'.thrown
          \/ /\ tokRun'.done
             /\ TokensOf("EOF")' = {Len(tokRun.tokens) + 1}]_vars
    /\ [](tokRun.done /\ ~tokRun.thrown => TokensOf("EOF") = {Len(tokRun.tokens)})
    /\ <>tokRun.done

\* tokenize has returned the tokens of a source with a blank after its last
\* token
C27_TokensReturned ==
    /\ tokRun.done /\ ~tokRun.thrown
    /\ Len(tokRun.tokens) = 3
    /\ tokRun.source[Len(tokRun.source)] = " "

\* the steps of the handler action_run of the loaded program, for a call of
\* handleAction('run') on the native runtime that found the handler
RunSteps ==
    IF /\ rt.kind = "seval"
       /\ LastCall("handleAction")
       /\ rt.call.name = "run"
       /\ rt.pre.loaded
       /\ rt.program # NoRun
    THEN rt.program.steps
    ELSE <<>>

\* the steps of the handler that are the last set(path, v) of their path
LastSets == {j \in 1..Len(RunSteps) :
                 /\ RunSteps[j].op = "define"
                 /\ \A i \in (j + 1)..Len(RunSteps) :
                        RunSteps[i].op = "define" => RunSteps[i].name # RunSteps[j].name}

\* C28: a value the handler wrote with set(path, v) is at that path of the
\* data model when handleAction returns, unless the handler wrote the path
\* again: the write-back of the handler's result does not put back the value
\* the data model had before the action.
C28_SetSurvives ==
    (RunSteps # <<>> /\ ~rt.failed) =>
        \A j \in LastSets :
            SameValue(Prop(rt.dataModel, Join(RunSteps[j].name)), RunSteps[j].value)

\* the keys the handlers of the loaded program write: the marks of the
\* handlers of go and of updateDerived, the paths of the steps
HandlerKeys ==
    IF rt.program = NoRun THEN {}
    ELSE {Join(RanKey(i)) : i \in {i \in 1..3 : rt.program.bindings[i] = "function"}}
         \cup (IF rt.program.derived THEN {Join(DerivedKey)} ELSE {})
         \cup {Join(rt.program.steps[j].name) :
                   j \in {j \in 1..Len(rt.program.steps) : rt.program.steps[j].op = "define"}}

\* C29: a handleAction call changes only the keys of the data model that
\* the handler wrote: no other key is added (not the names of the program's
\* members, not get, set and context) and every other key keeps its value.
C29_OnlyWrittenKeysChange ==
    (LastCall("handleAction") /\ rt.call.name # InputBinding) =>
        /\ DOMAIN rt.dataModel \subseteq DOMAIN rt.pre.dataModel \cup HandlerKeys
        /\ \A key \in DOMAIN rt.pre.dataModel \ HandlerKeys :
               /\ key \in DOMAIN rt.dataModel
               /\ rt.dataModel[key] = rt.pre.dataModel[key]

\* C30: the version never decreases over the calls, and a handleAction call
\* that changed the data model ends with a version greater than the one it
\* began with.
C30_VersionTracksChanges ==
    /\ rt.call # NoRun => rt.version >= rt.pre.version
    /\ (LastCall("handleAction") /\ rt.dataModel # rt.pre.dataModel) =>
           rt.version > rt.pre.version

====
